---- MODULE Spec2Model ----
(***************************************************************************)
(* Model of the stall-finder agent search: the LLM ranking engine          *)
(* (utils/agent/rankWithLLM.ts), the search orchestrator                   *)
(* (pages/api/search.ts, performAgentSearch and the API handler), the      *)
(* trace recorder (utils/agent/trace.ts) and the location resolver         *)
(* (utils/agent/geocode.ts, fallbackLocations.ts).                         *)
(*                                                                         *)
(* Conventions.  A JavaScript string whose characters the code inspects    *)
(* is a sequence of one-character strings; a fixed message the code only   *)
(* passes along is Txt("...").  null, undefined and NaN are the records    *)
(* Null, Undefined and NaN.  A JavaScript number that may also be null or  *)
(* undefined is Num(k).  Coordinates are degrees * 10^4, distances are     *)
(* metres.  JavaScript array indices are 0-based, Sequences are 1-based:   *)
(* the model keeps the code's 0-based index in the arithmetic and adds 1   *)
(* only where it reads the sequence.                                       *)
(***************************************************************************)
EXTENDS Integers, Sequences, FiniteSets, TLC

\* ------------------------------------------------------------------ bounds
\* Longest positions array of the exhaustively enumerated ranking responses.
MaxPositions == 3
\* Largest number of rows the candidate store returns.
MaxRows == 12
\* Number of concurrent callers of getEmbeddingPipeline.
MaxCallers == 3

\* ------------------------------------------------------- program constants
DEFAULT_RADIUS_KM == 2
MAX_RANKING_CANDIDATES == 50
TOP_N_RESULTS == 10
LLM_MODEL == "command-r"

\* ------------------------------------------------------- JavaScript values
Null == [t |-> "null"]
Undefined == [t |-> "undefined"]
NaN == [t |-> "NaN"]
Num(k) == [n |-> k]
Txt(x) == [txt |-> x]
Str(s) == [s |-> s]
Bool(b) == [b |-> b]
IsNum(v) == DOMAIN v = {"n"}
IsStr(v) == DOMAIN v = {"s"}

\* ToBoolean
Truthy(v) ==
    v \notin { Null, Undefined, NaN, Num(0), Str(<< >>), Txt(""), Bool(FALSE) }

Min(a, b) == IF a <= b THEN a ELSE b

\* `const x = value; ...`: Body applied to the evaluated value.
Let(value, Body(_)) == CHOOSE r \in { Body(x) : x \in { value } } : TRUE

\* Array.prototype.slice(0, k)
Take(s, k) == SubSeq(s, 1, Min(k, Len(s)))

Range(s) == { s[i] : i \in DOMAIN s }
NoDuplicates(s) == \A i, j \in DOMAIN s : i # j => s[i] # s[j]

\* Array.prototype.sort with a consistent comparator; the sort is stable
\* (ECMAScript 2019): Before(a, b) is "the comparator is negative on (a, b)".
SortedBy(s, Before(_, _)) ==
    Let(s, LAMBDA v :
        LET rank == [i \in DOMAIN v |-> 1 + Cardinality({ j \in DOMAIN v :
                            \/ Before(v[j], v[i])
                            \/ ~Before(v[i], v[j]) /\ j < i })]
        IN [p \in DOMAIN v |-> v[CHOOSE i \in DOMAIN v : rank[i] = p]])

RECURSIVE SumSeq(_)
SumSeq(s) == IF s = << >> THEN 0 ELSE Head(s) + SumSeq(Tail(s))

\* ------------------------------------------------------------------ strings
UpperCase == <<"A","B","C","D","E","F","G","H","I","J","K","L","M",
               "N","O","P","Q","R","S","T","U","V","W","X","Y","Z">>
LowerCase == <<"a","b","c","d","e","f","g","h","i","j","k","l","m",
               "n","o","p","q","r","s","t","u","v","w","x","y","z">>
LowerChar(c) ==
    IF \E i \in DOMAIN UpperCase : UpperCase[i] = c
    THEN LowerCase[CHOOSE i \in DOMAIN UpperCase : UpperCase[i] = c]
    ELSE c

\* String.prototype.toLowerCase
toLowerCase(s) == [i \in DOMAIN s |-> LowerChar(s[i])]

\* String.prototype.includes
includes(s, sub) ==
    \E i \in 0..(Len(s) - Len(sub)) : SubSeq(s, i + 1, i + Len(sub)) = sub

IsSpace(c) == c = " "

\* String.prototype.split(/\s+/): the pieces between maximal runs of
\* whitespace (an empty piece when the string starts or ends with one).
RECURSIVE SplitFrom(_, _, _)
SplitFrom(s, i, cur) ==
    IF i > Len(s) THEN << cur >>
    ELSE IF IsSpace(s[i])
         THEN IF i > 1 /\ IsSpace(s[i - 1])
              THEN SplitFrom(s, i + 1, cur)
              ELSE << cur >> \o SplitFrom(s, i + 1, << >>)
         ELSE SplitFrom(s, i + 1, Append(cur, s[i]))
split(s) == SplitFrom(s, 1, << >>)

\* ------------------------------------------------------------------- stalls
NamePool == <<
    <<"T", "i", "a", "n", " ", "T", "i", "a", "n">>,
    <<"A", "B", "C", " ", "S", "t", "a", "l", "l">>,
    <<"K", "a", "t", "o", "n", "g", " ", "L", "a", "k", "s", "a">>,
    <<"A", "h", " ", "T", "i", "a", "n", " ", "C", "h", "i", "c", "k", "e", "n", " ", "R", "i", "c", "e">>,
    <<"A", "B", "C", " ", "S", "t", "a", "l", "l">> >>

\* Offsets (degrees * 10^4) of the pool's stalls from Bugis (1.3008, 103.8558):
\* two stalls share one hawker centre, one lies just outside 2 km.
OffsetPool == << <<0, 0>>, <<100, 0>>, <<30, 40>>, <<100, 0>>, <<0, -150>>,
                 <<180, 0>>, <<-20, 10>> >>

\* The three affordability buckets of the table (the source writes the
\* middle one with en dashes).
AffordabilityPool == << "Affordable (< S$10)", "Affordable (< S$10)",
                        "Mid-Range (S$10-S$20)", "Premium (> S$20)" >>

PoolEntry(pool, i) == pool[((i - 1) % Len(pool)) + 1]

\* A row of the `stalls` table (types.ts, interface Stall) plus the columns
\* the table holds that the client must not see.
StallRow(i) ==
    [ place_id |-> 100 + i,
      name |-> PoolEntry(NamePool, i),
      category |-> "Hawker",
      cuisine |-> <<"C", "h", "i", "n", "e", "s", "e">>,
      affordability |-> PoolEntry(AffordabilityPool, i),
      location |-> "Singapore",
      operating_hours |-> Null,
      review_summary |-> "review",
      recommended_dishes |-> << "dish" >>,
      source |-> "blog",
      source_url |-> "url",
      date_published |-> "2024-01-01",
      latitude |-> Num(13008 + PoolEntry(OffsetPool, i)[1]),
      longitude |-> Num(1038558 + PoolEntry(OffsetPool, i)[2]),
      status |-> "open",
      embedding |-> "vector",
      embedded_text |-> "text",
      distance |-> Undefined ]

\* All duplicate-free sequences of length at most k over the set S.
InjSeqs(S, k) ==
    { q \in UNION { [1..m -> S] : m \in 0..k } : NoDuplicates(q) }

\* Contents of the `stalls` table the model considers, in the order the
\* store returns them: none, one stall beyond every search radius used, two
\* stalls of one hawker centre, mixed orders of near and far stalls, and the
\* first n stalls for every n above the result cap.
StoreRowLists ==
    { [i \in DOMAIN q |-> StallRow(q[i])] :
        q \in { << >>, << 6 >>, << 4, 2 >>, << 3, 1 >>, << 6, 2, 1 >>, << 2, 6, 3, 4, 1 >> } }
      \cup { [i \in 1..n |-> StallRow(i)] : n \in (TOP_N_RESULTS + 1)..MaxRows }

FoodQueries == {
    <<"t", "i", "a", "n", " ", "t", "i", "a", "n", " ", "c", "h", "i", "c", "k", "e", "n", " ", "r", "i", "c", "e">>,
    <<"l", "a", "k", "s", "a">> }

\* ----------------------------------------------------- LLM ranking engine
\* A position of the response's ranked_ids array: NaN for an element that
\* Number() does not convert, otherwise [h |-> k] for the number k/2 (so
\* that 1.5 can be told from 1 and 2).
Pos(k) == [h |-> 2 * k]
PosHalf(k) == [h |-> 2 * k + 1]

\* The completion service's answer to the ranking prompt.
\*   throw : cohere.chat rejects
\*   text  : the text is not JSON
\*   json  : the text is JSON; json is the decoded value, Null or an object
\*           whose ranked_ids is Undefined (absent or no array) or [arr |-> ...]
RankThrow == [kind |-> "throw"]
RankText == [kind |-> "text"]
RankJson(v) == [kind |-> "json", json |-> v]
RankObject(ids, why) == RankJson([ranked_ids |-> ids, reasoning |-> why])

\* The score findNameMatches gives one stall (the body of its forEach).
NameMatchScore(foodQuery, stall) ==
    LET queryWords == SelectSeq(split(toLowerCase(foodQuery)), LAMBDA w : Len(w) > 2)
        stallName == toLowerCase(stall.name)
    IN SumSeq([k \in DOMAIN queryWords |->
                 IF includes(stallName, queryWords[k]) THEN Len(queryWords[k]) ELSE 0])
       + (IF includes(stallName, toLowerCase(foodQuery)) THEN 100 ELSE 0)

\* The matches returned in candidate order, without the sort by score.
findNameMatches_Unsorted(foodQuery, candidates) ==
    Let([i \in DOMAIN candidates |->
            [index |-> i, score |-> NameMatchScore(foodQuery, candidates[i])]],
        LAMBDA all :
          LET matches == SelectSeq(all, LAMBDA m : m.score > 0)
          IN [k \in DOMAIN matches |-> matches[k].index])

\* Indices (1-based) of the candidates with a positive score, best first.
findNameMatches(foodQuery, candidates) ==
    Let([i \in DOMAIN candidates |->
            [index |-> i, score |-> NameMatchScore(foodQuery, candidates[i])]],
        LAMBDA all :
          LET matches == SelectSeq(all, LAMBDA m : m.score > 0)
              sorted == SortedBy(matches, LAMBDA a, b : b.score - a.score < 0)
          IN [k \in DOMAIN sorted |-> sorted[k].index])

FallbackIds(candidates) ==
    LET top == Take(candidates, TOP_N_RESULTS)
    IN [i \in DOMAIN top |-> top[i].place_id]

\* The loop with the position itself pushed instead of the place_id it names.
RECURSIVE CollectRanked_PushesPosition(_, _, _)
CollectRanked_PushesPosition(positions, candidates, rankedIds) ==
    IF positions = << >> THEN [threw |-> FALSE, ids |-> rankedIds]
    ELSE LET position == Head(positions)
             rest == Tail(positions)
         IN IF position = NaN
            THEN CollectRanked_PushesPosition(rest, candidates, rankedIds)
            ELSE LET index2 == position.h - 2
                 IN IF index2 >= 0 /\ index2 < 2 * Len(candidates)
                    THEN IF index2 % 2 = 0
                         THEN CollectRanked_PushesPosition(rest, candidates,
                                  Append(rankedIds, position.h \div 2))
                         ELSE [threw |-> TRUE, ids |-> << >>]
                    ELSE CollectRanked_PushesPosition(rest, candidates, rankedIds)

\* The loop of parseRankingResponse over parsed.ranked_ids.  threw is TRUE
\* when candidates[index] is undefined (a fractional index inside the range)
\* and reading its place_id raises a TypeError.
RECURSIVE CollectRanked(_, _, _)
CollectRanked(positions, candidates, rankedIds) ==
    IF positions = << >> THEN [threw |-> FALSE, ids |-> rankedIds]
    ELSE LET position == Head(positions)
             rest == Tail(positions)
         IN IF position = NaN
            THEN CollectRanked(rest, candidates, rankedIds)
            ELSE LET index2 == position.h - 2      \* twice (Number(position) - 1)
                 IN IF index2 >= 0 /\ index2 < 2 * Len(candidates)
                    THEN IF index2 % 2 = 0
                         THEN CollectRanked(rest, candidates,
                                  Append(rankedIds, candidates[(index2 \div 2) + 1].place_id))
                         ELSE [threw |-> TRUE, ids |-> << >>]
                    ELSE CollectRanked(rest, candidates, rankedIds)

parseRankingResponse(response, candidates) ==
    LET jsonError == [ranked_ids |-> FallbackIds(candidates),
                      reasoning |-> Txt("Fallback to original order - JSON parse error")]
    IN IF response.kind = "text" THEN jsonError
       ELSE LET parsed == response.json
            IN IF parsed = Null THEN jsonError     \* parsed.ranked_ids throws
               ELSE LET loop == IF parsed.ranked_ids = Undefined
                                THEN [threw |-> FALSE, ids |-> << >>]
                                ELSE CollectRanked(parsed.ranked_ids.arr, candidates, << >>)
                        rankedIds == loop.ids
                    IN IF loop.threw THEN jsonError
                       ELSE IF Len(rankedIds) = 0
                       THEN [ranked_ids |-> FallbackIds(candidates),
                             reasoning |-> Txt("Fallback to original order - could not parse ranking")]
                       ELSE [ranked_ids |-> Take(rankedIds, TOP_N_RESULTS),
                             reasoning |-> IF Truthy(parsed.reasoning)
                                           THEN parsed.reasoning ELSE Null]

\* rankWithLLM without the pre-filter.
PreFilter_Skipped(foodQuery, candidates) == candidates

\* The pre-filter of rankWithLLM: name matches first, then the others.
PreFilter(foodQuery, candidates) ==
    Let(findNameMatches(foodQuery, candidates), LAMBDA nameMatchIndices :
        IF Len(nameMatchIndices) > 0
        THEN LET nameMatchCandidates == [k \in DOMAIN nameMatchIndices |-> candidates[nameMatchIndices[k]]]
                 otherIdx == SelectSeq([i \in DOMAIN candidates |-> i],
                                       LAMBDA i : i \notin Range(nameMatchIndices))
                 otherCandidates == [k \in DOMAIN otherIdx |-> candidates[otherIdx[k]]]
             IN nameMatchCandidates \o otherCandidates
        ELSE candidates)

\* rankWithLLM whose catch block lets the error of cohere.chat escape.
rankWithLLM_Rethrows(foodQuery, candidates, response, latency) ==
    IF Len(candidates) = 0
    THEN [ranking |-> [ranked_ids |-> << >>, reasoning |-> Txt("No candidates to rank")],
          raw_response |-> Txt(""), latency_ms |-> 0, model |-> LLM_MODEL,
          chat_calls |-> 0, raised |-> FALSE]
    ELSE Let(PreFilter(foodQuery, candidates), LAMBDA reordered :
           IF response.kind = "throw"
           THEN [ranking |-> [ranked_ids |-> << >>, reasoning |-> Null],
                 raw_response |-> Txt(""), latency_ms |-> latency, model |-> LLM_MODEL,
                 chat_calls |-> 1, raised |-> TRUE]
           ELSE Let(Take(reordered, MAX_RANKING_CANDIDATES), LAMBDA limitedCandidates :
                  [ranking |-> parseRankingResponse(response, limitedCandidates),
                   raw_response |-> response, latency_ms |-> latency, model |-> LLM_MODEL,
                   chat_calls |-> 1, raised |-> FALSE]))

\* rankWithLLM(foodQuery, candidates) with the completion service answering
\* response after latency ms; chat_calls counts the calls to cohere.chat.
rankWithLLM(foodQuery, candidates, response, latency) ==
    IF Len(candidates) = 0
    THEN [ranking |-> [ranked_ids |-> << >>, reasoning |-> Txt("No candidates to rank")],
          raw_response |-> Txt(""), latency_ms |-> 0, model |-> LLM_MODEL,
          chat_calls |-> 0, raised |-> FALSE]
    ELSE Let(PreFilter(foodQuery, candidates), LAMBDA reordered :
           IF response.kind = "throw"
           THEN [ranking |-> [ranked_ids |-> FallbackIds(reordered),
                              reasoning |-> Txt("Fallback to original order due to ranking error")],
                 raw_response |-> Txt(""), latency_ms |-> latency, model |-> LLM_MODEL,
                 chat_calls |-> 1, raised |-> FALSE]
           ELSE Let(Take(reordered, MAX_RANKING_CANDIDATES), LAMBDA limitedCandidates :
                  [ranking |-> parseRankingResponse(response, limitedCandidates),
                   raw_response |-> response, latency_ms |-> latency, model |-> LLM_MODEL,
                   chat_calls |-> 1, raised |-> FALSE]))

\* Positions arrays the model enumerates for a prompt of n candidates: every
\* array of at most MaxPositions elements over 0, 1, 1.5, 2, 3 and NaN, and
\* the full rankings 1..n, n..1 and 1..n+1.
PositionValues == { Pos(0), Pos(1), PosHalf(1), Pos(2), Pos(3), NaN }
PositionArrays(n) ==
    UNION { [1..m -> PositionValues] : m \in 0..MaxPositions }
      \cup { [i \in 1..n |-> Pos(i)], [i \in 1..n |-> Pos(n + 1 - i)],
             [i \in 1..(n + 1) |-> Pos(i)] }

RankResponses(n) ==
    { RankThrow, RankText, RankJson(Null), RankObject(Undefined, Null) }
      \cup { RankObject([arr |-> a], why) :
                a \in PositionArrays(n), why \in { Undefined, Txt("top picks") } }

\* ------------------------------------------------------- location resolver
\* FALLBACK_LOCATIONS in declaration order (Object.entries order).
FALLBACK_LOCATIONS == <<
    [key |-> <<"b","u","g","i","s">>, lat |-> 13008, lng |-> 1038558],
    [key |-> <<"o","r","c","h","a","r","d">>, lat |-> 13041, lng |-> 1038318],
    [key |-> <<"c","h","i","n","a","t","o","w","n">>, lat |-> 12834, lng |-> 1038443],
    [key |-> <<"l","i","t","t","l","e"," ","i","n","d","i","a">>, lat |-> 13066, lng |-> 1038518],
    [key |-> <<"c","l","a","r","k","e"," ","q","u","a","y">>, lat |-> 12884, lng |-> 1038464],
    [key |-> <<"m","a","r","i","n","a"," ","b","a","y">>, lat |-> 12794, lng |-> 1038543],
    [key |-> <<"r","a","f","f","l","e","s"," ","p","l","a","c","e">>, lat |-> 12830, lng |-> 1038513],
    [key |-> <<"t","a","n","j","o","n","g"," ","p","a","g","a","r">>, lat |-> 12764, lng |-> 1038456],
    [key |-> <<"t","i","o","n","g"," ","b","a","h","r","u">>, lat |-> 12867, lng |-> 1038277],
    [key |-> <<"g","e","y","l","a","n","g">>, lat |-> 13119, lng |-> 1038868],
    [key |-> <<"k","a","t","o","n","g">>, lat |-> 13048, lng |-> 1039052],
    [key |-> <<"j","o","o"," ","c","h","i","a","t">>, lat |-> 13130, lng |-> 1039025],
    [key |-> <<"e","a","s","t"," ","c","o","a","s","t">>, lat |-> 13016, lng |-> 1039123],
    [key |-> <<"b","e","d","o","k">>, lat |-> 13241, lng |-> 1039304],
    [key |-> <<"t","a","m","p","i","n","e","s">>, lat |-> 13536, lng |-> 1039456],
    [key |-> <<"p","a","s","i","r"," ","r","i","s">>, lat |-> 13730, lng |-> 1039494],
    [key |-> <<"c","h","a","n","g","i">>, lat |-> 13568, lng |-> 1039886],
    [key |-> <<"a","n","g"," ","m","o"," ","k","i","o">>, lat |-> 13691, lng |-> 1038454],
    [key |-> <<"b","i","s","h","a","n">>, lat |-> 13505, lng |-> 1038485],
    [key |-> <<"t","o","a"," ","p","a","y","o","h">>, lat |-> 13346, lng |-> 1038500],
    [key |-> <<"s","e","r","a","n","g","o","o","n">>, lat |-> 13500, lng |-> 1038718],
    [key |-> <<"h","o","u","g","a","n","g">>, lat |-> 13713, lng |-> 1038920],
    [key |-> <<"p","u","n","g","g","o","l">>, lat |-> 13984, lng |-> 1039072],
    [key |-> <<"s","e","n","g","k","a","n","g">>, lat |-> 13917, lng |-> 1038953],
    [key |-> <<"w","o","o","d","l","a","n","d","s">>, lat |-> 14360, lng |-> 1037865],
    [key |-> <<"y","i","s","h","u","n">>, lat |-> 14295, lng |-> 1038350],
    [key |-> <<"s","e","m","b","a","w","a","n","g">>, lat |-> 14491, lng |-> 1038199],
    [key |-> <<"j","u","r","o","n","g"," ","e","a","s","t">>, lat |-> 13330, lng |-> 1037423],
    [key |-> <<"j","u","r","o","n","g"," ","w","e","s","t">>, lat |-> 13404, lng |-> 1037090],
    [key |-> <<"c","l","e","m","e","n","t","i">>, lat |-> 13150, lng |-> 1037651],
    [key |-> <<"b","u","o","n","a"," ","v","i","s","t","a">>, lat |-> 13073, lng |-> 1037901],
    [key |-> <<"h","o","l","l","a","n","d"," ","v","i","l","l","a","g","e">>, lat |-> 13117, lng |-> 1037961],
    [key |-> <<"n","o","v","e","n","a">>, lat |-> 13204, lng |-> 1038439],
    [key |-> <<"n","e","w","t","o","n">>, lat |-> 13138, lng |-> 1038381],
    [key |-> <<"d","h","o","b","y"," ","g","h","a","u","t">>, lat |-> 12988, lng |-> 1038456],
    [key |-> <<"c","i","t","y"," ","h","a","l","l">>, lat |-> 12931, lng |-> 1038519],
    [key |-> <<"l","a","v","e","n","d","e","r">>, lat |-> 13072, lng |-> 1038630],
    [key |-> <<"k","a","l","l","a","n","g">>, lat |-> 13114, lng |-> 1038714],
    [key |-> <<"a","l","j","u","n","i","e","d">>, lat |-> 13165, lng |-> 1038829],
    [key |-> <<"p","a","y","a"," ","l","e","b","a","r">>, lat |-> 13178, lng |-> 1038927],
    [key |-> <<"e","u","n","o","s">>, lat |-> 13198, lng |-> 1039030],
    [key |-> <<"k","e","m","b","a","n","g","a","n">>, lat |-> 13208, lng |-> 1039128],
    [key |-> <<"s","i","m","e","i">>, lat |-> 13432, lng |-> 1039532],
    [key |-> <<"e","x","p","o">>, lat |-> 13351, lng |-> 1039617],
    [key |-> <<"m","a","x","w","e","l","l">>, lat |-> 12804, lng |-> 1038447],
    [key |-> <<"m","a","x","w","e","l","l"," ","f","o","o","d"," ","c","e","n","t","r","e">>, lat |-> 12804, lng |-> 1038447],
    [key |-> <<"o","l","d"," ","a","i","r","p","o","r","t"," ","r","o","a","d">>, lat |-> 13082, lng |-> 1038831],
    [key |-> <<"o","l","d"," ","a","i","r","p","o","r","t"," ","r","o","a","d"," ","f","o","o","d"," ","c","e","n","t","r","e">>, lat |-> 13082, lng |-> 1038831],
    [key |-> <<"a","m","o","y"," ","s","t","r","e","e","t">>, lat |-> 12799, lng |-> 1038469],
    [key |-> <<"a","m","o","y"," ","s","t","r","e","e","t"," ","f","o","o","d"," ","c","e","n","t","r","e">>, lat |-> 12799, lng |-> 1038469],
    [key |-> <<"g","o","l","d","e","n"," ","m","i","l","e">>, lat |-> 13025, lng |-> 1038631],
    [key |-> <<"g","o","l","d","e","n"," ","m","i","l","e"," ","f","o","o","d"," ","c","e","n","t","r","e">>, lat |-> 13025, lng |-> 1038631],
    [key |-> <<"l","a","u"," ","p","a"," ","s","a","t">>, lat |-> 12805, lng |-> 1038505],
    [key |-> <<"t","e","k","k","a">>, lat |-> 13066, lng |-> 1038500],
    [key |-> <<"t","e","k","k","a"," ","c","e","n","t","r","e">>, lat |-> 13066, lng |-> 1038500],
    [key |-> <<"c","h","o","m","p"," ","c","h","o","m","p">>, lat |-> 13619, lng |-> 1038664],
    [key |-> <<"n","e","w","t","o","n"," ","f","o","o","d"," ","c","e","n","t","r","e">>, lat |-> 13120, lng |-> 1038388],
    [key |-> <<"a","d","a","m"," ","r","o","a","d"," ","f","o","o","d"," ","c","e","n","t","r","e">>, lat |-> 13245, lng |-> 1038139],
    [key |-> <<"g","h","i","m"," ","m","o","h">>, lat |-> 13111, lng |-> 1037883],
    [key |-> <<"c","o","m","m","o","n","w","e","a","l","t","h">>, lat |-> 13020, lng |-> 1037987],
    [key |-> <<"z","i","o","n"," ","r","o","a","d">>, lat |-> 12910, lng |-> 1038295],
    [key |-> <<"h","o","n","g"," ","l","i","m">>, lat |-> 12852, lng |-> 1038452],
    [key |-> <<"h","o","n","g"," ","l","i","m"," ","f","o","o","d"," ","c","e","n","t","r","e">>, lat |-> 12852, lng |-> 1038452],
    [key |-> <<"a","l","b","e","r","t"," ","c","e","n","t","r","e">>, lat |-> 13022, lng |-> 1038535],
    [key |-> <<"b","e","r","s","e","h"," ","f","o","o","d"," ","c","e","n","t","r","e">>, lat |-> 13073, lng |-> 1038550],
    [key |-> <<"b","e","n","d","e","m","e","e","r">>, lat |-> 13220, lng |-> 1038652],
    [key |-> <<"i","o","n"," ","o","r","c","h","a","r","d">>, lat |-> 13039, lng |-> 1038318],
    [key |-> <<"n","g","e","e"," ","a","n","n"," ","c","i","t","y">>, lat |-> 13020, lng |-> 1038341],
    [key |-> <<"t","a","k","a","s","h","i","m","a","y","a">>, lat |-> 13020, lng |-> 1038341],
    [key |-> <<"p","l","a","z","a"," ","s","i","n","g","a","p","u","r","a">>, lat |-> 13008, lng |-> 1038451],
    [key |-> <<"s","u","n","t","e","c">>, lat |-> 12940, lng |-> 1038578],
    [key |-> <<"s","u","n","t","e","c"," ","c","i","t","y">>, lat |-> 12940, lng |-> 1038578],
    [key |-> <<"b","u","g","i","s"," ","j","u","n","c","t","i","o","n">>, lat |-> 12997, lng |-> 1038550],
    [key |-> <<"b","u","g","i","s","+">>, lat |-> 13003, lng |-> 1038549],
    [key |-> <<"v","i","v","o"," ","c","i","t","y">>, lat |-> 12644, lng |-> 1038223],
    [key |-> <<"v","i","v","o","c","i","t","y">>, lat |-> 12644, lng |-> 1038223],
    [key |-> <<"h","a","r","b","o","u","r","f","r","o","n","t">>, lat |-> 12653, lng |-> 1038214],
    [key |-> <<"s","e","n","t","o","s","a">>, lat |-> 12494, lng |-> 1038303],
    [key |-> <<"n","u","s">>, lat |-> 12966, lng |-> 1037764],
    [key |-> <<"n","t","u">>, lat |-> 13483, lng |-> 1036831],
    [key |-> <<"s","m","u">>, lat |-> 12973, lng |-> 1038498],
    [key |-> <<"s","u","t","d">>, lat |-> 13413, lng |-> 1039637] >>

RECURSIVE TrimLeft(_)
TrimLeft(s) == IF s # << >> /\ IsSpace(Head(s)) THEN TrimLeft(Tail(s)) ELSE s
RECURSIVE TrimRight(_)
TrimRight(s) ==
    IF s # << >> /\ IsSpace(s[Len(s)]) THEN TrimRight(SubSeq(s, 1, Len(s) - 1)) ELSE s
\* String.prototype.trim
trim(s) == TrimRight(TrimLeft(s))

\* Names FALLBACK_LOCATIONS[name] also answers: the object literal inherits
\* from Object.prototype, and these are the inherited properties whose names
\* survive toLowerCase().  Their values are truthy and have no lat or lng.
INHERITED_KEYS ==
    { <<"c","o","n","s","t","r","u","c","t","o","r">>, <<"_","_","p","r","o","t","o","_","_">> }

\* The lookup with the containment scan tried before the direct match.
getFallbackLocation_SubstringFirst(locationName) ==
    LET normalized == trim(toLowerCase(locationName))
        exact == { i \in DOMAIN FALLBACK_LOCATIONS : FALLBACK_LOCATIONS[i].key = normalized }
        partial == { i \in DOMAIN FALLBACK_LOCATIONS :
                       \/ includes(FALLBACK_LOCATIONS[i].key, normalized)
                       \/ includes(normalized, FALLBACK_LOCATIONS[i].key) }
        first(S) == CHOOSE i \in S : \A j \in S : i <= j
        coords(i) == [lat |-> Num(FALLBACK_LOCATIONS[i].lat), lng |-> Num(FALLBACK_LOCATIONS[i].lng)]
    IN IF partial # {} THEN coords(first(partial))
       ELSE IF exact # {} THEN coords(first(exact))
       ELSE IF normalized \in INHERITED_KEYS THEN [lat |-> Undefined, lng |-> Undefined]
       ELSE Null

getFallbackLocation(locationName) ==
    LET normalized == trim(toLowerCase(locationName))
        exact == { i \in DOMAIN FALLBACK_LOCATIONS : FALLBACK_LOCATIONS[i].key = normalized }
        partial == { i \in DOMAIN FALLBACK_LOCATIONS :
                       \/ includes(FALLBACK_LOCATIONS[i].key, normalized)
                       \/ includes(normalized, FALLBACK_LOCATIONS[i].key) }
        first(S) == CHOOSE i \in S : \A j \in S : i <= j
        coords(i) == [lat |-> Num(FALLBACK_LOCATIONS[i].lat), lng |-> Num(FALLBACK_LOCATIONS[i].lng)]
    IN IF exact # {} THEN coords(first(exact))
       ELSE IF normalized \in INHERITED_KEYS THEN [lat |-> Undefined, lng |-> Undefined]
       ELSE IF partial # {} THEN coords(first(partial))
       ELSE Null

geocodeWithFallback(placeName) ==
    LET coords == getFallbackLocation(placeName)
    IN IF coords # Null
       THEN [lat |-> coords.lat, lng |-> coords.lng, source |-> "fallback",
             input |-> placeName, address |-> Undefined]
       ELSE Null

\* The OneMap call as geocode sees it.
\*   no_token : ONEMAP_API_TOKEN is not set (no request is made)
\*   status   : the response has the HTTP status `status`
\*   zero     : 200 with found = 0 or no results
\*   throw    : fetch or response.json() rejects
\*   ok       : 200 whose first result has the strings lat, lng as LATITUDE
\*              and LONGITUDE
\* A coordinate string is the decimal numeral of a number (Numeral) or a
\* text that starts with no number (NotANumeral).
Numeral(k) == [numeral |-> k]
NotANumeral == [text |-> "NIL"]
parseFloat(v) == IF DOMAIN v = {"numeral"} THEN Num(v.numeral) ELSE NaN

OneMapNoToken == [kind |-> "no_token"]
OneMapStatus(code) == [kind |-> "status", status |-> code]
OneMapZero == [kind |-> "zero"]
OneMapThrow == [kind |-> "throw"]
OneMapOk(lat, lng) == [kind |-> "ok", lat |-> lat, lng |-> lng]

\* What an operator answers when the code leaves by an exception.
Raised == [t |-> "raised"]

\* geocode with a catch block that rethrows.
geocode_Rethrows(placeName, onemap) ==
    IF onemap.kind = "no_token" THEN geocodeWithFallback(placeName)
    ELSE IF onemap.kind = "throw" THEN Raised
    ELSE IF onemap.kind = "status" /\ onemap.status = 400 THEN geocodeWithFallback(placeName)
    ELSE IF onemap.kind = "status" /\ onemap.status = 403 THEN geocodeWithFallback(placeName)
    ELSE IF onemap.kind = "status" /\ onemap.status = 429 THEN geocodeWithFallback(placeName)
    ELSE IF onemap.kind = "status" /\ ~(onemap.status \in 200..299)
         THEN geocodeWithFallback(placeName)
    ELSE IF onemap.kind = "zero" THEN geocodeWithFallback(placeName)
    ELSE IF onemap.kind = "ok"
         THEN [lat |-> parseFloat(onemap.lat), lng |-> parseFloat(onemap.lng), source |-> "onemap",
               input |-> placeName, address |-> Txt("address")]
    ELSE geocodeWithFallback(placeName)

geocode(placeName, onemap) ==
    IF onemap.kind = "no_token" THEN geocodeWithFallback(placeName)
    ELSE IF onemap.kind = "throw" THEN geocodeWithFallback(placeName)
    ELSE IF onemap.kind = "status" /\ onemap.status = 400 THEN geocodeWithFallback(placeName)
    ELSE IF onemap.kind = "status" /\ onemap.status = 403 THEN geocodeWithFallback(placeName)
    ELSE IF onemap.kind = "status" /\ onemap.status = 429 THEN geocodeWithFallback(placeName)
    ELSE IF onemap.kind = "status" /\ ~(onemap.status \in 200..299)
         THEN geocodeWithFallback(placeName)
    ELSE IF onemap.kind = "zero" THEN geocodeWithFallback(placeName)
    ELSE IF onemap.kind = "ok"
         THEN [lat |-> parseFloat(onemap.lat), lng |-> parseFloat(onemap.lng), source |-> "onemap",
               input |-> placeName, address |-> Txt("address")]
    ELSE geocodeWithFallback(placeName)     \* 2xx without a decodable body

OneMapOutcomes ==
    { OneMapNoToken, OneMapStatus(429), OneMapStatus(500), OneMapZero, OneMapThrow,
      OneMapOk(Numeral(12998), Numeral(1038553)) }

\* ------------------------------------------------------- query interpreter
\* The completion service's answer to the parsing prompt: throw, text (not
\* JSON) or json (the decoded value: Null or an object of raw field values).
ParseThrow == [kind |-> "throw"]
ParseText == [kind |-> "text"]
ParseJson(v) == [kind |-> "json", json |-> v]

\* The decimal numeral of a natural number
RECURSIVE DigitsOf(_)
DigitsOf(k) ==
    LET digit == <<"0", "1", "2", "3", "4", "5", "6", "7", "8", "9">>[(k % 10) + 1]
    IN IF k < 10 THEN << digit >> ELSE Append(DigitsOf(k \div 10), digit)

\* String(v) for the values a decoded completion holds
JsString(v) ==
    IF IsStr(v) THEN v
    ELSE IF IsNum(v) THEN Str(DigitsOf(v.n))
    ELSE IF v = Bool(TRUE) THEN Str(<<"t", "r", "u", "e">>)
    ELSE IF v = Bool(FALSE) THEN Str(<<"f", "a", "l", "s", "e">>)
    ELSE IF v = Null THEN Str(<<"n", "u", "l", "l">>)
    ELSE Str(<<"u", "n", "d", "e", "f", "i", "n", "e", "d">>)

\* String(v).trim()
StringTrim(v) == Str(trim(JsString(v).s))

\* parsed.field: undefined when the decoded value has no such property
Get(parsed, field) == IF field \in DOMAIN parsed THEN parsed[field] ELSE Undefined

InList(v, list) == \E i \in DOMAIN list : list[i] = v

normalizePrice(price) ==
    IF ~Truthy(price) THEN Null
    ELSE LET normalized == trim(toLowerCase(JsString(price).s))
         IN IF InList(normalized, << <<"c","h","e","a","p">>, <<"b","u","d","g","e","t">>,
                                     <<"a","f","f","o","r","d","a","b","l","e">>, <<"l","o","w">> >>)
            THEN Txt("cheap")
            ELSE IF InList(normalized, << <<"m","o","d","e","r","a","t","e">>,
                                          <<"m","e","d","i","u","m">>, <<"m","i","d">> >>)
            THEN Txt("moderate")
            ELSE IF InList(normalized, << <<"e","x","p","e","n","s","i","v","e">>,
                                          <<"p","r","e","m","i","u","m">>, <<"h","i","g","h">>,
                                          <<"h","i","g","h","-","e","n","d">> >>)
            THEN Txt("expensive")
            ELSE Null

normalizeLocationIntent(intent) ==
    IF ~Truthy(intent) THEN Null
    ELSE LET normalized == trim(toLowerCase(JsString(intent).s))
         IN IF InList(normalized, << <<"c","l","o","s","e","s","t">>, <<"n","e","a","r","e","s","t">> >>)
            THEN Txt("closest")
            ELSE IF InList(normalized, << <<"n","e","a","r","b","y">>, <<"n","e","a","r">> >>)
            THEN Txt("nearby")
            ELSE IF InList(normalized, << <<"i","n","_","a","r","e","a">>, <<"i","n"," ","a","r","e","a">>,
                                          <<"i","n","a","r","e","a">> >>)
            THEN Txt("in_area")
            ELSE Null

\* threw is TRUE when JSON.parse or the mapping raises inside the try.
parseJsonResponse(response) ==
    IF response.kind = "text"
    THEN [threw |-> TRUE, message |-> "Invalid JSON response from LLM: <text>"]
    ELSE LET parsed == response.json
         IN IF parsed = Null       \* parsed.food_query raises a TypeError
            THEN [threw |-> TRUE, message |-> "Invalid JSON response from LLM: null"]
            ELSE [threw |-> FALSE,
                  value |->
                    [food_query |-> StringTrim(IF Truthy(Get(parsed, "food_query"))
                                               THEN Get(parsed, "food_query") ELSE Str(<< >>)),
                     location_name |-> IF Truthy(Get(parsed, "location_name"))
                                       THEN StringTrim(Get(parsed, "location_name")) ELSE Null,
                     use_current_location |-> Truthy(Get(parsed, "use_current_location")),
                     location_intent |-> normalizeLocationIntent(Get(parsed, "location_intent")),
                     cuisine |-> IF Truthy(Get(parsed, "cuisine"))
                                 THEN StringTrim(Get(parsed, "cuisine")) ELSE Null,
                     price |-> normalizePrice(Get(parsed, "price")),
                     exclusions |-> IF DOMAIN Get(parsed, "exclusions") = {"arr"}
                                    THEN [i \in DOMAIN parsed.exclusions.arr |->
                                             StringTrim(parsed.exclusions.arr[i])]
                                    ELSE << >>]]

parseQuery(query, response, latency) ==
    IF response.kind = "throw"
    THEN [threw |-> TRUE, message |-> "Failed to parse query: <service error>"]
    ELSE LET decoded == parseJsonResponse(response)
         IN IF decoded.threw
            THEN [threw |-> TRUE, message |-> "Failed to parse query: " \o decoded.message]
            ELSE [threw |-> FALSE, parsed |-> decoded.value, raw_response |-> response,
                  latency_ms |-> latency, model |-> LLM_MODEL]

\* ----------------------------------------------------------- trace recorder
createEmptyTrace(rawQuery, userLocation) ==
    [ trace_id |-> "trace_1",
      raw_query |-> rawQuery,
      user_location |-> userLocation,
      parsing |-> [prompt |-> Txt(""), raw_response |-> Txt(""), parsed |-> Null,
                   latency_ms |-> 0, model |-> ""],
      geocoding |-> [input |-> Null, output |-> Null, source |-> "skipped",
                     latency_ms |-> 0, error |-> Undefined],
      database |-> [filters |-> Null, row_count |-> 0, latency_ms |-> 0],
      distance_filter |-> [center |-> Null, radius_km |-> 0, before_count |-> 0,
                           after_count |-> 0],
      ranking |-> [food_query |-> Str(<< >>), candidate_count |-> 0, prompt |-> Txt(""),
                   raw_response |-> Txt(""), ranked_ids |-> << >>, reasoning |-> Null,
                   latency_ms |-> 0, model |-> ""],
      result_count |-> 0,
      total_latency_ms |-> 0,
      errors |-> << >> ]

addTraceError(trace, step, message) ==
    [trace EXCEPT !.errors = Append(@, [step |-> step, message |-> message])]

finalizeTrace(trace) ==
    [trace EXCEPT !.total_latency_ms =
        trace.parsing.latency_ms + trace.geocoding.latency_ms
          + trace.database.latency_ms + trace.ranking.latency_ms]

createTraceSummary(trace) ==
    [ trace_id |-> trace.trace_id,
      timings |-> [parsing_ms |-> trace.parsing.latency_ms,
                   geocoding_ms |-> trace.geocoding.latency_ms,
                   database_ms |-> trace.database.latency_ms,
                   distance_filter_ms |-> 0,
                   ranking_ms |-> trace.ranking.latency_ms,
                   total_ms |-> trace.total_latency_ms],
      counts |-> [db_results |-> trace.database.row_count,
                  after_distance_filter |-> trace.distance_filter.after_count,
                  final_results |-> trace.result_count] ]

\* ------------------------------------------------------ distance utilities
Abs(x) == IF x < 0 THEN -x ELSE x
ISqrt(n, hi) == CHOOSE r \in 0..hi : r * r <= n /\ n < (r + 1) * (r + 1)

\* JavaScript arithmetic on a coordinate: null counts as 0, undefined as NaN.
ToNumber(v) == IF IsNum(v) THEN v ELSE IF v = Null THEN Num(0) ELSE NaN

\* calculateDistance: the haversine great-circle distance.  Over the few
\* kilometres and at the latitude (1.3 degrees north) of the model's points
\* it is the Euclidean length of the coordinate difference times the length
\* of one degree (111.195 km); the result is in metres, and NaN as soon as
\* one argument is not a number.
calculateDistance(lat1, lon1, lat2, lon2) ==
    LET a == ToNumber(lat1)
        b == ToNumber(lon1)
        c == ToNumber(lat2)
        d == ToNumber(lon2)
    IN IF NaN \in {a, b, c, d} THEN NaN
       ELSE LET dLat == c.n - a.n
                dLon == d.n - b.n
            IN Num((ISqrt(dLat * dLat + dLon * dLon, Abs(dLat) + Abs(dLon)) * 111195) \div 10000)

\* a <= b on JavaScript numbers (false when either is NaN); b in metres
NumLeq(a, b) == IsNum(a) /\ IsNum(b) /\ a.n <= b.n
\* a - b < 0 on JavaScript numbers
NumLess(a, b) == IsNum(a) /\ IsNum(b) /\ a.n < b.n

KmToMetres(km) == km * 1000

\* ------------------------------------------------------- search orchestrator
VARIABLES
    pc,             \* where the handler is suspended
    body,           \* req.body of the request being served
    userLocation,   \* performAgentSearch's userLocation argument
    trace,          \* the SearchTrace of the request
    searchCenter,   \* performAgentSearch's searchCenter
    dbQuery,        \* the filters of the store query that was built
    candidates,     \* performAgentSearch's candidates
    response,       \* what the handler sent: status and JSON body
    calls,          \* how often each collaborator has been invoked
    env,            \* what the collaborators answered to this request
    sink,           \* the trace insert: "none", "pending", "stored", "error", "threw"
    rkPc,           \* rankWithLLM called on its own: "call" or "returned"
    rkQuery,        \* its foodQuery argument
    rkCandidates,   \* its candidates argument
    rkResponse,     \* the completion service's answer
    rkResult,       \* its return value
    fnPc,           \* geocode or parseQuery called on its own: "call" or "returned"
    fnArgs,         \* the arguments and what the external service answers
    fnResult,       \* the return value, or the error raised
    embeddingPipeline, \* the module-level cache of the embedding model
    embLoads,       \* how many times pipeline(...) has been started
    embCall,        \* each call of getEmbeddingPipeline: position, load awaited, result
    wsPc,           \* where the handler is suspended on a request without useAgent
    wsBody,         \* req.body of that request
    wsStalls,       \* processedResults (free modes) or filteredStalls (guided mode)
    wsStandard,     \* standardResults
    wsEnv,          \* what the collaborators answered to that request
    wsResponse      \* what the handler sent: status and JSON body

searchVars == << pc, body, userLocation, trace, searchCenter, dbQuery, candidates,
                 response, calls, env, sink >>
rankVars == << rkPc, rkQuery, rkCandidates, rkResponse, rkResult >>
fnVars == << fnPc, fnArgs, fnResult >>
embVars == << embeddingPipeline, embLoads, embCall >>
wsVars == << wsPc, wsBody, wsStalls, wsStandard, wsEnv, wsResponse >>
vars == << pc, body, userLocation, trace, searchCenter, dbQuery, candidates,
           response, calls, env, sink, rkPc, rkQuery, rkCandidates, rkResponse, rkResult,
           fnPc, fnArgs, fnResult, embeddingPipeline, embLoads, embCall,
           wsPc, wsBody, wsStalls, wsStandard, wsEnv, wsResponse >>

\* Durations (ms) an awaited external call may be measured to take.
Latencies == {0, 40}

\* handler, lines 506-508
UserLocationOf(latitude, longitude) ==
    IF latitude # Null /\ longitude # Null
    THEN [lat |-> latitude, lng |-> longitude]
    ELSE Null

\* Step 2 with the user's location tried when geocoding finds nothing.
DetermineSearchCenter_FallsBackToUser(parsed, userLoc, geoResult, elapsed) ==
    IF Truthy(parsed.location_name) /\ geoResult # Null
    THEN LET center == [lat |-> geoResult.lat, lng |-> geoResult.lng]
         IN [searchCenter |-> center, failed |-> FALSE,
             geocoding |-> [input |-> parsed.location_name, output |-> center,
                            source |-> geoResult.source, latency_ms |-> elapsed,
                            error |-> Undefined]]
    ELSE IF parsed.use_current_location /\ userLoc # Null
    THEN [searchCenter |-> userLoc, failed |-> FALSE,
          geocoding |-> [input |-> Txt("user_location"), output |-> userLoc,
                         source |-> "user_location", latency_ms |-> 0,
                         error |-> Undefined]]
    ELSE [searchCenter |-> Null, failed |-> Truthy(parsed.location_name),
          geocoding |-> [input |-> Null, output |-> Null, source |-> "skipped",
                         latency_ms |-> 0, error |-> Undefined]]

\* Step 2 of performAgentSearch.  geoResult and elapsed are the value and the
\* duration of `await geocode(...)`, read only in the first branch.
DetermineSearchCenter(parsed, userLoc, geoResult, elapsed) ==
    IF Truthy(parsed.location_name)
    THEN IF geoResult # Null
         THEN LET center == [lat |-> geoResult.lat, lng |-> geoResult.lng]
              IN [searchCenter |-> center, failed |-> FALSE,
                  geocoding |-> [input |-> parsed.location_name, output |-> center,
                                 source |-> geoResult.source, latency_ms |-> elapsed,
                                 error |-> Undefined]]
         ELSE [searchCenter |-> Null, failed |-> TRUE,
               geocoding |-> [input |-> parsed.location_name, output |-> Null,
                              source |-> "skipped", latency_ms |-> elapsed,
                              error |-> Txt("Geocoding returned no results")]]
    ELSE IF parsed.use_current_location /\ userLoc # Null
    THEN [searchCenter |-> userLoc, failed |-> FALSE,
          geocoding |-> [input |-> Txt("user_location"), output |-> userLoc,
                         source |-> "user_location", latency_ms |-> 0,
                         error |-> Undefined]]
    ELSE [searchCenter |-> Null, failed |-> FALSE,
          geocoding |-> [input |-> Null, output |-> Null, source |-> "skipped",
                         latency_ms |-> 0, error |-> Undefined]]

\* Step 3 with the cumulative price buckets of the guided search.
BuildStoreQuery_Cumulative(parsed) ==
    [ status |-> "open",
      cuisine_ilike |-> IF Truthy(parsed.cuisine) THEN parsed.cuisine ELSE Null,
      affordability_in |->
        IF ~Truthy(parsed.price) THEN Null
        ELSE IF parsed.price = Txt("cheap") THEN [values |-> { "Affordable (< S$10)" }]
        ELSE IF parsed.price = Txt("moderate")
             THEN [values |-> { "Affordable (< S$10)", "Mid-Range (S$10-S$20)" }]
        ELSE IF parsed.price = Txt("expensive")
             THEN [values |-> { "Affordable (< S$10)", "Mid-Range (S$10-S$20)",
                                "Premium (> S$20)" }]
        ELSE Null ]

\* Step 3: the filters put on supabase.from('stalls').select('*')
BuildStoreQuery(parsed) ==
    [ status |-> "open",
      cuisine_ilike |-> IF Truthy(parsed.cuisine) THEN parsed.cuisine ELSE Null,
      affordability_in |->
        IF ~Truthy(parsed.price) THEN Null
        ELSE IF parsed.price = Txt("cheap") THEN [values |-> { "Affordable (< S$10)" }]
        ELSE IF parsed.price = Txt("moderate") THEN [values |-> { "Mid-Range (S$10-S$20)" }]
        ELSE IF parsed.price = Txt("expensive") THEN [values |-> { "Premium (> S$20)" }]
        ELSE Null ]

\* The store's answer to that query over the table contents `rows`.
StoreSelect(query, rows) ==
    SelectSeq(rows, LAMBDA r :
        /\ r.status = query.status
        /\ query.cuisine_ilike = Null
              \/ includes(toLowerCase(r.cuisine), toLowerCase(query.cuisine_ilike.s))
        /\ query.affordability_in = Null \/ r.affordability \in query.affordability_in.values)

\* Step 4 without the final sort.
DistanceFilter_Unsorted(cands, center) ==
    IF center = Null THEN cands
    ELSE Let([i \in DOMAIN cands |->
                 [cands[i] EXCEPT !.distance =
                     calculateDistance(center.lat, center.lng,
                                       cands[i].latitude, cands[i].longitude)]],
             LAMBDA withDistance :
               SelectSeq(withDistance, LAMBDA stall :
                   NumLeq(stall.distance, Num(KmToMetres(DEFAULT_RADIUS_KM)))))

\* A sort that puts candidates of equal distance in reverse order.
SortByDistance_Unstable(stalls) ==
    SortedBy([i \in DOMAIN stalls |-> stalls[Len(stalls) + 1 - i]],
             LAMBDA a, b : NumLess(a.distance, b.distance))

\* .sort((a, b) => a.distance! - b.distance!)
SortByDistance(stalls) ==
    SortedBy(stalls, LAMBDA a, b : NumLess(a.distance, b.distance))

\* Step 4: distance filtering, applied when a search center exists.
DistanceFilter(cands, center) ==
    IF center = Null THEN cands
    ELSE Let([i \in DOMAIN cands |->
                 [cands[i] EXCEPT !.distance =
                     calculateDistance(center.lat, center.lng,
                                       cands[i].latitude, cands[i].longitude)]],
             LAMBDA withDistance :
               LET inRadius == SelectSeq(withDistance, LAMBDA stall :
                                   NumLeq(stall.distance, Num(KmToMetres(DEFAULT_RADIUS_KM))))
               IN SortByDistance(inRadius))

\* The ranked candidates kept in candidate order instead of ranking order.
ReorderByRanking_CandidateOrder(rankedIds, cands) ==
    SelectSeq(cands, LAMBDA c : c.place_id \in Range(rankedIds))

\* Reorder candidates based on ranking: idToCandidate.get(id) for every
\* ranked id, undefined entries filtered out.  A Map built from entries with
\* equal keys keeps the last one.
ReorderByRanking(rankedIds, cands) ==
    LET known == SelectSeq(rankedIds, LAMBDA id : \E i \in DOMAIN cands : cands[i].place_id = id)
        get(id) == cands[CHOOSE i \in DOMAIN cands :
                       /\ cands[i].place_id = id
                       /\ \A j \in DOMAIN cands : cands[j].place_id = id => j <= i]
    IN [k \in DOMAIN known |-> get(known[k])]

\* The first TOP_N_RESULTS ranked candidates returned as they are stored.
FormatResults_WholeRecord(rankedCandidates) == Take(rankedCandidates, TOP_N_RESULTS)

\* Format results: the first TOP_N_RESULTS ranked candidates, public fields.
FormatResults(rankedCandidates) ==
    LET top == Take(rankedCandidates, TOP_N_RESULTS)
    IN [k \in DOMAIN top |->
          [ place_id |-> top[k].place_id,
            name |-> top[k].name,
            distance |-> IF top[k].distance = Undefined THEN Null ELSE top[k].distance,
            cuisine |-> top[k].cuisine,
            affordability |-> top[k].affordability,
            recommended_dishes |-> top[k].recommended_dishes,
            source |-> top[k].source,
            source_url |-> top[k].source_url,
            date_published |-> top[k].date_published,
            review_summary |-> top[k].review_summary,
            location |-> top[k].location ]]

\* A catch that reports the error's message to the caller.
ErrorResponse_LeaksMessage(message) ==
    [status |-> 500, json |-> [error |-> message]]

\* handler's catch: the response to any error thrown by the search
ErrorResponse(message) ==
    [status |-> 500, json |-> [error |-> "An error occurred during search"]]

\* The requests the model serves: agent search (mode free, useAgent) with the
\* coordinates absent, null or those of a user near Bugis.
RawQuery == Txt("<raw query>")
BodyCoordinates ==
    { << Null, Null >>, << Undefined, Undefined >>, << Num(13010), Num(1038560) >> }

\* req.body.debug: true, false or absent
DebugValues == { Bool(TRUE), Bool(FALSE), Undefined }

\* The request bodies served: latitude, longitude, debug.
Requests ==
    { r \in BodyCoordinates \X DebugValues :
        \/ r[1] = << Null, Null >> /\ r[2] # Bool(FALSE)
        \/ r[1] = << Undefined, Undefined >> /\ r[2] = Bool(FALSE)
        \/ r[1] = << Num(13010), Num(1038560) >> /\ r[2] # Undefined }

\* Objects the parsing completion may decode to.
ParseObject(food, place, here, price) ==
    ParseJson([food_query |-> food, location_name |-> place,
               use_current_location |-> here, location_intent |-> Undefined,
               cuisine |-> Null, price |-> price, exclusions |-> [arr |-> << >>]])
PlaceNames == { Null, Str(<<"B", "u", "g", "i", "s">>), Str(<<"a", "t", "l", "a", "n", "t", "i", "s">>) }
ParseResponses ==
    { ParseThrow, ParseText, ParseJson(Null) }
      \cup { ParseObject(Str(<<"t", "i", "a", "n", " ", "t", "i", "a", "n", " ", "c", "h", "i", "c", "k", "e", "n", " ", "r", "i", "c", "e">>),
                          place, here, Null) :
                place \in PlaceNames, here \in { Bool(TRUE), Bool(FALSE) } }
      \cup { ParseObject(Str(<<"l", "a", "k", "s", "a">>), Null, Bool(FALSE), price) :
                price \in { Str(<<"B", "u", "d", "g", "e", "t">>), Str(<<"m", "i", "d">>),
                            Str(<<"P", "r", "e", "m", "i", "u", "m">>) } }

\* Answers of the store: an error, or the rows of a table content.
StoreError(isError) == [failed |-> TRUE, message |-> "connection refused", instanceofError |-> isError]
StoreRows(rows) == [failed |-> FALSE, rows |-> rows]
StoreAnswers ==
    { StoreError(TRUE), StoreError(FALSE) } \cup { StoreRows(rows) : rows \in StoreRowLists }

\* Ranking completions the orchestrator model draws from, for n candidates.
SearchRankResponses(n) ==
    { RankThrow, RankText, RankObject(Undefined, Undefined),
      RankObject([arr |-> << Pos(2), Pos(1), Pos(2), Pos(n + 1) >>], Txt("top picks")),
      RankObject([arr |-> [i \in 1..n |-> Pos(n + 1 - i)]], Txt("top picks")),
      RankObject([arr |-> [i \in 1..n |-> Pos(i)]], Undefined) }

NoCalls == [parseQuery |-> 0, geocode |-> 0, database |-> 0, rankWithLLM |-> 0,
            chat |-> 0, console |-> 0, sink |-> 0, warn |-> 0]

\* Nothing has answered yet.  parse and rank hold the completions, geocode
\* the value geocode returned, store the store's answer (its rows being the
\* rows that pass the query's filters).
NoAnswers == [parse |-> Null, geocode |-> Undefined, store |-> Null, rank |-> Null]

SearchIdle ==
    /\ body = Null
    /\ userLocation = Null
    /\ trace = Null
    /\ searchCenter = Null
    /\ dbQuery = Null
    /\ candidates = << >>
    /\ response = Null
    /\ calls = NoCalls
    /\ env = NoAnswers
    /\ sink = "none"

RankIdle ==
    /\ rkQuery = << >>
    /\ rkCandidates = << >>
    /\ rkResponse = Null
    /\ rkResult = Null

FnIdle ==
    /\ fnPc = "off"
    /\ fnArgs = Null
    /\ fnResult = Null

\* What the collaborators of the weighted-score engine have answered: the
\* table contents the store answered from, and the outcome of each call.
NoWsAnswers ==
    [table |-> Null, select |-> "none", embedding |-> "none", match |-> "none",
     rerank |-> "none"]

WsIdle ==
    /\ wsPc = "off"
    /\ wsBody = Null
    /\ wsStalls = << >>
    /\ wsStandard = << >>
    /\ wsEnv = NoWsAnswers
    /\ wsResponse = Null

Callers == 1..MaxCallers

EmbIdle ==
    /\ embeddingPipeline = Null
    /\ embLoads = 0
    /\ embCall = [c \in Callers |-> [pc |-> "off", load |-> 0, result |-> Null]]

\* The sub-record with the reasoning left at its initial null.
EmptyRanking_NoReasoning(parsed) ==
    [food_query |-> parsed.food_query, candidate_count |-> 0,
     prompt |-> Txt(""), raw_response |-> Txt(""),
     ranked_ids |-> << >>,
     reasoning |-> Null,
     latency_ms |-> 0, model |-> LLM_MODEL]

\* Step 5 when no candidate is left: the ranking sub-record written without
\* calling rankWithLLM.
EmptyRanking(parsed) ==
    [food_query |-> parsed.food_query, candidate_count |-> 0,
     prompt |-> Txt(""), raw_response |-> Txt(""),
     ranked_ids |-> << >>,
     reasoning |-> Txt("No candidates to rank"),
     latency_ms |-> 0, model |-> LLM_MODEL]

\* performAgentSearch's catch block, then the handler's catch.
FailSearch(t, counted, message) ==
    /\ trace' = finalizeTrace(addTraceError(t, "general", message))
    /\ calls' = [counted EXCEPT !.console = @ + 1]
    /\ response' = ErrorResponse(message)
    /\ sink' = sink
    /\ pc' = "responded"

\* The object returned with the trace whatever debug is.
AgentResult_AlwaysTrace(results, final, center, debug) ==
    [results |-> results,
     parsed |-> final.parsing.parsed,
     search_center |-> center,
     reasoning |-> final.ranking.reasoning,
     trace |-> final,
     summary |-> createTraceSummary(final)]

\* The object performAgentSearch returns.
AgentResult(results, final, center, debug) ==
    [results |-> results,
     parsed |-> final.parsing.parsed,
     search_center |-> center,
     reasoning |-> final.ranking.reasoning,
     trace |-> IF Truthy(debug) THEN final ELSE Undefined,
     summary |-> createTraceSummary(final)]

\* performAgentSearch's debug parameter: false by default
DebugOf(bodyDebug) == IF bodyDebug = Undefined THEN Bool(FALSE) ELSE bodyDebug

\* Step 5: the ranking sub-record written from rankWithLLM's result.
RankingRecord(parsed, cands, rankResult) ==
    [food_query |-> parsed.food_query, candidate_count |-> Len(cands),
     prompt |-> Txt(""), raw_response |-> rankResult.raw_response,
     ranked_ids |-> rankResult.ranking.ranked_ids,
     reasoning |-> rankResult.ranking.reasoning,
     latency_ms |-> rankResult.latency_ms, model |-> rankResult.model]

\* From "Reorder candidates based on ranking" to the return: the finalized
\* trace and the response the handler sends.
CompleteSearch(t, cands, center, debug) ==
    Let(ReorderByRanking(t.ranking.ranked_ids, cands), LAMBDA rankedCandidates :
      Let(finalizeTrace([t EXCEPT !.result_count = Len(rankedCandidates)]), LAMBDA final :
        [trace |-> final,
         response |-> [status |-> 200,
                       json |-> AgentResult(FormatResults(rankedCandidates), final,
                                            center, debug)]]))

\* The same, with the trace logged to the console and its insert issued
\* without being awaited.
FinishSearch(t, counted, cands, center) ==
    \E done \in { CompleteSearch(t, cands, center, DebugOf(body.debug)) } :
       /\ trace' = done.trace
       /\ calls' = [counted EXCEPT !.console = @ + 1, !.sink = @ + 1]
       /\ response' = done.response
       /\ sink' = "pending"
       /\ pc' = "responded"

\* Steps 2 (once the center is known) and 3 up to `await queryBuilder`.
QueryStore(t, counted, located) ==
    LET parsed == t.parsing.parsed
        recorded == [t EXCEPT !.geocoding = located.geocoding]
    IN /\ trace' = IF located.failed
                   THEN addTraceError(recorded, "geocoding", "Could not geocode <location_name>")
                   ELSE recorded
       /\ searchCenter' = located.searchCenter
       /\ dbQuery' = BuildStoreQuery(parsed)
       /\ calls' = [counted EXCEPT !.database = @ + 1]
       /\ sink' = sink
       /\ pc' = "database"

\* handler: POST with mode free and useAgent; performAgentSearch up to
\* `await parseQuery(query)`.
Request(latitude, longitude, debug) ==
    /\ pc = "idle"
    /\ body' = [mode |-> "free", useAgent |-> TRUE, query |-> RawQuery,
                latitude |-> latitude, longitude |-> longitude, debug |-> debug]
    /\ userLocation' = UserLocationOf(latitude, longitude)
    /\ trace' = createEmptyTrace(RawQuery, UserLocationOf(latitude, longitude))
    /\ calls' = [calls EXCEPT !.parseQuery = @ + 1]
    /\ pc' = "parsing"
    /\ UNCHANGED << searchCenter, dbQuery, candidates, response, env, sink >>
    /\ UNCHANGED rankVars
    /\ UNCHANGED fnVars
    /\ UNCHANGED embVars
    /\ UNCHANGED wsVars

\* parseQuery settles; the search runs on to its next await.
ParseReturns(completion, elapsed) ==
    /\ pc = "parsing"
    /\ env' = [env EXCEPT !.parse = completion]
    /\ LET result == parseQuery(body.query, completion, elapsed)
       IN IF result.threw
          THEN /\ FailSearch(trace, calls, result.message)
               /\ UNCHANGED << searchCenter, dbQuery >>
          ELSE LET parsed == result.parsed
                   t == [trace EXCEPT !.parsing =
                            [prompt |-> body.query, raw_response |-> result.raw_response,
                             parsed |-> parsed, latency_ms |-> result.latency_ms,
                             model |-> result.model]]
               IN /\ response' = response
                  /\ IF Truthy(parsed.location_name)
                     THEN /\ trace' = t
                          /\ calls' = [calls EXCEPT !.geocode = @ + 1]
                          /\ pc' = "geocoding"
                          /\ UNCHANGED << searchCenter, dbQuery, sink >>
                     ELSE QueryStore(t, calls,
                              DetermineSearchCenter(parsed, userLocation, Null, 0))
    /\ UNCHANGED << body, userLocation, candidates >>
    /\ UNCHANGED rankVars
    /\ UNCHANGED fnVars
    /\ UNCHANGED embVars
    /\ UNCHANGED wsVars

\* geocode settles.
GeocodeReturns(onemap, elapsed) ==
    /\ pc = "geocoding"
    /\ \E geoResult \in { geocode(trace.parsing.parsed.location_name.s, onemap) } :
          /\ env' = [env EXCEPT !.geocode = geoResult]
          /\ QueryStore(trace, calls,
                 DetermineSearchCenter(trace.parsing.parsed, userLocation, geoResult, elapsed))
    /\ UNCHANGED << body, userLocation, candidates, response >>
    /\ UNCHANGED rankVars
    /\ UNCHANGED fnVars
    /\ UNCHANGED embVars
    /\ UNCHANGED wsVars

\* The store query settles: steps 3 (rest), 4 and 5 up to `await rankWithLLM`,
\* or to the response when nothing is left to rank.
DatabaseReturns(answer, elapsed) ==
    /\ pc = "database"
    /\ IF answer.failed
       THEN /\ env' = [env EXCEPT !.store = answer]
            /\ FailSearch(addTraceError(trace, "database", answer.message), calls,
                          IF answer.instanceofError THEN answer.message ELSE "Unknown error")
            /\ UNCHANGED candidates
       ELSE \E dbResults \in { StoreSelect(dbQuery, answer.rows) } :
            \E filtered \in { DistanceFilter(dbResults, searchCenter) } :
            LET parsed == trace.parsing.parsed
                t == [trace EXCEPT
                        !.database = [filters |-> [cuisine |-> parsed.cuisine,
                                                   price |-> parsed.price,
                                                   status |-> "open"],
                                      row_count |-> Len(dbResults),
                                      latency_ms |-> elapsed],
                        !.distance_filter = [center |-> searchCenter,
                                             radius_km |-> DEFAULT_RADIUS_KM,
                                             before_count |-> Len(dbResults),
                                             after_count |-> Len(filtered)]]
            IN /\ env' = [env EXCEPT !.store = StoreRows(dbResults)]
               /\ candidates' = filtered
               /\ IF Len(filtered) = 0
                  THEN FinishSearch([t EXCEPT !.ranking = EmptyRanking(parsed)],
                                    calls, filtered, searchCenter)
                  ELSE /\ trace' = t
                       /\ calls' = [calls EXCEPT !.rankWithLLM = @ + 1]
                       /\ pc' = "ranking"
                       /\ response' = response
                       /\ sink' = sink
    /\ UNCHANGED << body, userLocation, searchCenter, dbQuery >>
    /\ UNCHANGED rankVars
    /\ UNCHANGED fnVars
    /\ UNCHANGED embVars
    /\ UNCHANGED wsVars

\* rankWithLLM settles: the rest of step 5, reorder, finalize, log, respond.
RankReturns(completion, elapsed) ==
    /\ pc = "ranking"
    /\ env' = [env EXCEPT !.rank = completion]
    /\ \E rankResult \in { rankWithLLM(trace.parsing.parsed.food_query.s, candidates,
                                         completion, elapsed) } :
       LET parsed == trace.parsing.parsed
           counted == [calls EXCEPT !.chat = @ + rankResult.chat_calls]
       IN IF rankResult.raised
          THEN FailSearch(trace, counted, "ranking raised")
          ELSE FinishSearch(
                  [trace EXCEPT !.ranking = RankingRecord(parsed, candidates, rankResult)],
                  counted, candidates, searchCenter)
    /\ UNCHANGED << body, userLocation, searchCenter, dbQuery, candidates >>
    /\ UNCHANGED rankVars
    /\ UNCHANGED fnVars
    /\ UNCHANGED embVars
    /\ UNCHANGED wsVars

\* What the supabase insert of logTraceToSupabase may do.
SinkOutcomes == { "stored", "error", "threw" }

\* An insert whose exception reaches the caller of the search.
SinkSettles_Propagates(outcome) ==
    /\ sink = "pending"
    /\ sink' = outcome
    /\ calls' = [calls EXCEPT !.warn = @ + (IF outcome = "stored" THEN 0 ELSE 1)]
    /\ response' = IF outcome = "threw" THEN ErrorResponse("insert failed") ELSE response
    /\ UNCHANGED << pc, body, userLocation, trace, searchCenter, dbQuery, candidates, env >>
    /\ UNCHANGED rankVars
    /\ UNCHANGED fnVars
    /\ UNCHANGED embVars
    /\ UNCHANGED wsVars

\* logTraceToSupabase settles: the insert answered, answered with an error
\* (warned about) or raised (caught and warned about); the promise resolves
\* and nobody awaits it.
SinkSettles(outcome) ==
    /\ sink = "pending"
    /\ sink' = outcome
    /\ calls' = [calls EXCEPT !.warn = @ + (IF outcome = "stored" THEN 0 ELSE 1)]
    /\ UNCHANGED << pc, body, userLocation, trace, searchCenter, dbQuery, candidates,
                    response, env >>
    /\ UNCHANGED rankVars
    /\ UNCHANGED fnVars
    /\ UNCHANGED embVars
    /\ UNCHANGED wsVars

Init ==
    /\ pc = "idle"
    /\ SearchIdle
    /\ rkPc = "off"
    /\ RankIdle
    /\ FnIdle
    /\ EmbIdle
    /\ WsIdle

Next ==
    \/ pc = "idle" /\ \E r \in Requests : Request(r[1][1], r[1][2], r[2])
    \/ pc = "parsing" /\ \E completion \in ParseResponses, elapsed \in Latencies :
          ParseReturns(completion, elapsed)
    \/ pc = "geocoding" /\ \E onemap \in OneMapOutcomes, elapsed \in Latencies :
          GeocodeReturns(onemap, elapsed)
    \/ pc = "database" /\ \E answer \in StoreAnswers, elapsed \in Latencies :
          DatabaseReturns(answer, elapsed)
    \/ pc = "ranking" /\
          \E completion \in SearchRankResponses(Min(Len(candidates), MAX_RANKING_CANDIDATES)),
             elapsed \in Latencies : RankReturns(completion, elapsed)
    \/ sink = "pending" /\ \E outcome \in SinkOutcomes : SinkSettles(outcome)

Spec == Init /\ [][Next]_vars

\* ------------------------------------------- rankWithLLM called on its own
RankCandidateLists ==
    { [i \in DOMAIN q |-> StallRow(q[i])] : q \in InjSeqs(1..3, 3) }
      \cup { [i \in 1..n |-> StallRow(i)] : n \in (TOP_N_RESULTS + 1)..MaxRows }

RankInit ==
    /\ pc = "off"
    /\ SearchIdle
    /\ rkPc = "call"
    /\ rkQuery \in FoodQueries
    /\ rkCandidates \in RankCandidateLists
    /\ rkResponse \in RankResponses(Min(Len(rkCandidates), MAX_RANKING_CANDIDATES))
    /\ rkResult = Null
    /\ FnIdle
    /\ EmbIdle
    /\ WsIdle

RankCall(elapsed) ==
    /\ rkPc = "call"
    /\ rkResult' = rankWithLLM(rkQuery, rkCandidates, rkResponse, elapsed)
    /\ rkPc' = "returned"
    /\ UNCHANGED << rkQuery, rkCandidates, rkResponse >>
    /\ UNCHANGED searchVars
    /\ UNCHANGED fnVars
    /\ UNCHANGED embVars
    /\ UNCHANGED wsVars

RankNext == \E elapsed \in Latencies : RankCall(elapsed)

RankSpec == RankInit /\ [][RankNext]_vars

\* ----------------------------------------------- geocode called on its own
\* Place names: gazetteer keys in other letter case and with padding, a
\* fragment of a key, a phrase holding a key, names the gazetteer lacks, an
\* inherited property name, the empty string, a key that contains an earlier
\* key, and a fragment of that key.
GeocodePlaceNames ==
    { <<"B","u","g","i","s">>, <<" ","B","U","G","I","S"," ">>, <<"s","u","t","d">>,
      <<"c","h","i","n","a">>, <<"n","e","a","r"," ","o","r","c","h","a","r","d">>,
      <<"a","t","l","a","n","t","i","s">>, <<"x","y","z">>,
      <<"c","o","n","s","t","r","u","c","t","o","r">>, << >>,
      <<"b","u","g","i","s">>, <<"B","u","g","i","s"," ","J","u","n","c","t","i","o","n">>,
      <<"j","u","n","c","t","i","o","n">> }

\* What the OneMap call may do: every status geocode tests for, one more
\* error status, an empty answer, a rejection, and answers with results.
GeocodeOneMapOutcomes ==
    { OneMapNoToken, OneMapStatus(400), OneMapStatus(403), OneMapStatus(429),
      OneMapStatus(500), OneMapZero, OneMapThrow,
      OneMapOk(Numeral(12998), Numeral(1038553)), OneMapOk(NotANumeral, NotANumeral) }

GeocodeInit ==
    /\ pc = "off"
    /\ SearchIdle
    /\ rkPc = "off"
    /\ RankIdle
    /\ fnPc = "call"
    /\ fnArgs \in [placeName : GeocodePlaceNames, onemap : GeocodeOneMapOutcomes]
    /\ fnResult = Null
    /\ EmbIdle
    /\ WsIdle

\* await geocode(placeName): an async function, whose exceptions reach the
\* caller as a rejection.
GeocodeCall ==
    /\ fnPc = "call"
    /\ \E result \in { geocode(fnArgs.placeName, fnArgs.onemap) } :
          fnResult' = [raised |-> result = Raised, value |-> result]
    /\ fnPc' = "returned"
    /\ UNCHANGED fnArgs
    /\ UNCHANGED searchVars
    /\ UNCHANGED rankVars
    /\ UNCHANGED embVars
    /\ UNCHANGED wsVars

GeocodeNext == GeocodeCall

GeocodeSpec == GeocodeInit /\ [][GeocodeNext]_vars

\* --------------------------------------------- parseQuery called on its own
\* Values the decoded completion may hold as food_query: omitted, null,
\* falsy, empty, blank, padded, plain, and a number.
FoodQueryValues ==
    { Undefined, Null, Bool(FALSE), Num(0), Num(7), Str(<< >>), Str(<<" ", " ">>),
      Str(<<" ", "l", "a", "k", "s", "a", " ">>), Str(<<"l", "a", "k", "s", "a">>) }

PriceValues ==
    { Undefined, Null, Num(5), Str(<<"B", "u", "d", "g", "e", "t">>), Str(<<" ", "m", "i", "d", " ">>),
      Str(<<"H", "I", "G", "H", "-", "E", "N", "D">>), Str(<<"f", "r", "e", "e">>) }

LocationIntentValues ==
    { Undefined, Str(<<"N", "e", "a", "r", "e", "s", "t">>), Str(<<"i", "n", " ", "a", "r", "e", "a">>),
      Str(<<"f", "a", "r">>) }

\* Completions of the parsing prompt: a rejection, text that is not JSON,
\* JSON null, a JSON number, string, boolean and array, and JSON objects
\* over the values above.
ParseQueryResponses ==
    { ParseThrow, ParseText, ParseJson(Null), ParseJson(Num(7)),
      ParseJson(Str(<<"l", "a", "k", "s", "a">>)), ParseJson(Bool(TRUE)),
      ParseJson(Bool(FALSE)), ParseJson([arr |-> << >>]) }
      \cup { ParseJson([food_query |-> food, location_name |-> place,
                        use_current_location |-> Bool(FALSE), location_intent |-> intent,
                        cuisine |-> Null, price |-> price,
                        exclusions |-> [arr |-> << Str(<<" ", "p", "o", "r", "k">>) >>]]) :
                food \in FoodQueryValues,
                place \in { Undefined, Str(<<" ", "B", "u", "g", "i", "s">>) },
                intent \in LocationIntentValues,
                price \in PriceValues }

ParseQueryInit ==
    /\ pc = "off"
    /\ SearchIdle
    /\ rkPc = "off"
    /\ RankIdle
    /\ fnPc = "call"
    /\ fnArgs \in [query : { RawQuery }, response : ParseQueryResponses]
    /\ fnResult = Null
    /\ EmbIdle
    /\ WsIdle

\* await parseQuery(query)
ParseQueryCall(elapsed) ==
    /\ fnPc = "call"
    /\ \E result \in { parseQuery(fnArgs.query, fnArgs.response, elapsed) } :
          fnResult' = [raised |-> result.threw, value |-> result]
    /\ fnPc' = "returned"
    /\ UNCHANGED fnArgs
    /\ UNCHANGED searchVars
    /\ UNCHANGED rankVars
    /\ UNCHANGED embVars
    /\ UNCHANGED wsVars

ParseQueryNext == \E elapsed \in Latencies : ParseQueryCall(elapsed)

ParseQuerySpec == ParseQueryInit /\ [][ParseQueryNext]_vars

\* -------------------------------------------------- weighted-score engine
\* Scores are kept in thousandths (similarity 0.45 is 450), so that the
\* weighted sums are integers: adjustedSimilarity and the factor of
\* adjustedDistance are kept times 10^4.
Infinity == [inf |-> TRUE]

\* { ...record, field: value }
With(record, field, value) ==
    [x \in DOMAIN record \cup { field } |-> IF x = field THEN value ELSE record[x]]

\* A date_published that lies the given number of days before the request.
Published(days) == [daysAgo |-> days]

\* The publication dates of the pool's stalls; one stall has none.
DatePool == << Published(730), Published(0), Null, Published(365), Published(0),
               Published(365) >>

\* The similarity the store's vector search gives to the pool's stalls.
SimilarityPool == << 500, 450, 250, 900, 310, 320, 600 >>

\* Math.exp(-diffDays / 365) in thousandths, for whole years.
ExpMinusYears(days) ==
    CASE days = 0 -> 1000
      [] days = 365 -> 368
      [] days = 730 -> 135

\* calculateRecencyScore
calculateRecencyScore(datePublished) ==
    IF ~Truthy(datePublished) THEN 0 ELSE ExpMinusYears(datePublished.daysAgo)

\* Table contents with the dates of the pool.
DatedRowLists ==
    { [i \in DOMAIN rows |->
          [rows[i] EXCEPT !.date_published = PoolEntry(DatePool, rows[i].place_id - 100)]] :
        rows \in StoreRowLists }

\* supabase.rpc('match_stalls', ...): the rows whose similarity is above the
\* threshold, most similar first, at most match_count of them.
match_stalls(rows, match_threshold, match_count) ==
    Take(SortedBy(SelectSeq([i \in DOMAIN rows |->
                                With(rows[i], "similarity",
                                     Num(PoolEntry(SimilarityPool, rows[i].place_id - 100)))],
                            LAMBDA r : r.similarity.n > match_threshold),
                  LAMBDA a, b : a.similarity.n > b.similarity.n),
         match_count)

\* proximityToKm; a proximity is kept as its first word
proximityToKm(proximity) ==
    IF ~Truthy(proximity) THEN Infinity
    ELSE LET value == parseFloat(proximity.first)
         IN IF Truthy(value) THEN value ELSE Infinity

isNaN(v) == ToNumber(v) = NaN

\* formatStallResult
formatStallResult(stall) ==
    [ place_id |-> stall.place_id,
      name |-> stall.name,
      distance |-> IF stall.distance \in { Undefined, Null } THEN Null ELSE stall.distance,
      cuisine |-> stall.cuisine,
      affordability |-> stall.affordability,
      recommended_dishes |-> stall.recommended_dishes,
      source |-> stall.source,
      source_url |-> stall.source_url,
      date_published |-> stall.date_published,
      recencyScore |-> Get(stall, "recencyScore"),
      review_summary |-> stall.review_summary,
      location |-> stall.location,
      cohereScore |-> Get(stall, "cohereScore"),
      similarity |-> Get(stall, "similarity") ]

\* performSemanticOnlySearch, lines 180-188: processedResults
ProcessSemanticOnly(results) ==
    [i \in DOMAIN results |->
        LET stall == results[i]
            recencyScore == calculateRecencyScore(stall.date_published)
        IN With(With(With(stall, "distance", Null), "recencyScore", recencyScore),
                "adjustedSimilarity", stall.similarity.n * 7 + recencyScore * 3)]

\* performHybridSearch, lines 230-256: processedResults
ProcessHybrid(results, latitude, longitude) ==
    [i \in DOMAIN results |->
        LET stall == results[i]
            distance == IF /\ Truthy(stall.latitude) /\ Truthy(stall.longitude)
                           /\ ~isNaN(stall.latitude) /\ ~isNaN(stall.longitude)
                           /\ ~isNaN(latitude) /\ ~isNaN(longitude)
                        THEN calculateDistance(latitude, longitude,
                                               stall.latitude, stall.longitude)
                        ELSE Null
            recencyScore == calculateRecencyScore(stall.date_published)
        IN With(With(With(stall, "distance", distance), "recencyScore", recencyScore),
                "adjustedSimilarity", stall.similarity.n * 7 + recencyScore * 3)]

\* lines 191-194 and 259-262: standardResults of the free modes
FreeStandardResults(processedResults) ==
    LET sorted == SortedBy(processedResults,
                           LAMBDA a, b : a.adjustedSimilarity > b.adjustedSimilarity)
        top == Take(sorted, 10)
    IN [k \in DOMAIN top |-> formatStallResult(top[k])]

\* The reranking service's answer: a rejection, or results (0-based index
\* into the documents, relevance score) for at most topN documents.
RerankThrow == [kind |-> "throw"]
RerankOk(results) == [kind |-> "ok", results |-> results]

\* rerankResults on a non-empty list of stalls, from what cohere.rerank
\* answers
rerankResults(stalls, answer) ==
    IF answer.kind = "ok"
    THEN [k \in DOMAIN answer.results |->
             With(stalls[answer.results[k].index + 1], "cohereScore",
                  Num(answer.results[k].relevanceScore))]
    ELSE Take(stalls, 10)

\* lines 199 and 267: formattedReranked
FreeFormattedReranked(rerankedResults) ==
    LET top == Take(rerankedResults, 10)
    IN [k \in DOMAIN top |-> formatStallResult(top[k])]

\* handler, lines 528-550: the filters of the guided store query
GuidedStoreQuery(cuisine, affordability) ==
    [ status |-> "open",
      cuisine_ilike |-> IF Truthy(cuisine) THEN cuisine ELSE Null,
      affordability_in |->
        IF ~Truthy(affordability) THEN Null
        ELSE IF affordability = Txt("$") THEN [values |-> { "Affordable (< S$10)" }]
        ELSE IF affordability = Txt("$$")
             THEN [values |-> { "Affordable (< S$10)", "Mid-Range (S$10-S$20)" }]
        ELSE IF affordability = Txt("$$$")
             THEN [values |-> { "Mid-Range (S$10-S$20)", "Premium (> S$20)" }]
        ELSE [values |-> { affordability.txt }] ]

\* handler, lines 556-568: filteredStalls after the proximity filter
\* (distances in metres, maxDistance in kilometres)
GuidedFilter(stalls, latitude, longitude, proximity) ==
    LET maxDistance == proximityToKm(proximity)
    IN SelectSeq([i \in DOMAIN stalls |->
                     With(With(stalls[i], "distance",
                               calculateDistance(latitude, longitude,
                                                 stalls[i].latitude, stalls[i].longitude)),
                          "recencyScore", calculateRecencyScore(stalls[i].date_published))],
                 LAMBDA stall :
                    /\ IsNum(stall.distance)
                    /\ maxDistance = Infinity
                          \/ stall.distance.n <= KmToMetres(maxDistance.n))

\* semanticScores.get(stall.place_id) || 0
SemanticScore(semanticResults, place_id) ==
    LET hits == { i \in DOMAIN semanticResults : semanticResults[i].place_id = place_id }
    IN IF hits = { } THEN Num(0)
       ELSE LET found == semanticResults[CHOOSE i \in hits : \A j \in hits : j <= i].similarity
            IN IF Truthy(found) THEN found ELSE Num(0)

\* handler, lines 593-604: the semantic scores are merged in and the list
\* is sorted by adjusted distance
GuidedSemanticRank(filteredStalls, semanticResults) ==
    SortedBy([i \in DOMAIN filteredStalls |->
                 LET stall == filteredStalls[i]
                     score == SemanticScore(semanticResults, stall.place_id)
                 IN With(With(With(stall, "semanticScore", score), "similarity", score),
                         "adjustedDistance",
                         stall.distance.n * (10000 - score.n * 3 - stall.recencyScore))],
             LAMBDA a, b : a.adjustedDistance < b.adjustedDistance)

\* handler, lines 608-615: no semantic search, distance and recency only
GuidedRecencyRank(filteredStalls) ==
    SortedBy([i \in DOMAIN filteredStalls |->
                 With(filteredStalls[i], "adjustedDistance",
                      filteredStalls[i].distance.n * (10000 - filteredStalls[i].recencyScore))],
             LAMBDA a, b : a.adjustedDistance < b.adjustedDistance)

\* handler, lines 632-646: standardResults of the guided mode
GuidedStandardResults(filteredStalls) ==
    LET top == Take(filteredStalls, 10)
    IN [k \in DOMAIN top |->
          [ place_id |-> top[k].place_id,
            name |-> top[k].name,
            distance |-> top[k].distance,
            cuisine |-> top[k].cuisine,
            affordability |-> top[k].affordability,
            recommended_dishes |-> top[k].recommended_dishes,
            source |-> top[k].source,
            source_url |-> top[k].source_url,
            date_published |-> top[k].date_published,
            recencyScore |-> top[k].recencyScore,
            review_summary |-> top[k].review_summary,
            location |-> top[k].location,
            similarity |-> IF Truthy(Get(top[k], "similarity"))
                           THEN top[k].similarity ELSE Null ]]

\* handler, lines 653-667: rerankedResults of the guided mode
GuidedRerankedResults(rerankedStalls) ==
    LET top == Take(rerankedStalls, 10)
    IN [k \in DOMAIN top |->
          [ place_id |-> top[k].place_id,
            name |-> top[k].name,
            distance |-> top[k].distance,
            cuisine |-> top[k].cuisine,
            affordability |-> top[k].affordability,
            recommended_dishes |-> top[k].recommended_dishes,
            source |-> top[k].source,
            source_url |-> top[k].source_url,
            date_published |-> top[k].date_published,
            recencyScore |-> top[k].recencyScore,
            review_summary |-> top[k].review_summary,
            location |-> top[k].location,
            cohereScore |-> Get(top[k], "cohereScore") ]]

\* Request bodies without useAgent.  A proximity is kept as its first word.
FreeBody(latitude, longitude, compare) ==
    [ mode |-> "free", query |-> RawQuery, latitude |-> latitude, longitude |-> longitude,
      cuisine |-> Undefined, proximity |-> Undefined, affordability |-> Undefined,
      comments |-> Undefined, compare |-> compare ]
GuidedBody(latitude, longitude, cuisine, proximity, affordability, comments, compare) ==
    [ mode |-> "guided", query |-> Undefined, latitude |-> latitude,
      longitude |-> longitude, cuisine |-> cuisine, proximity |-> proximity,
      affordability |-> affordability, comments |-> comments, compare |-> compare ]

WeightedBodies ==
    { FreeBody(at[1], at[2], compare) :
        at \in { << Null, Null >>, << Undefined, Undefined >>, << Num(13010), Num(1038560) >> },
        compare \in { Undefined, Bool(TRUE) } }
      \cup { GuidedBody(Null, Null, Undefined, Undefined, Undefined, Undefined, Undefined) }
      \cup { GuidedBody(Num(13010), Num(1038560), cuisine, proximity, affordability,
                        comments, compare) :
                cuisine \in { Undefined, Str(<<"c", "h", "i", "n", "e", "s", "e">>) },
                proximity \in { Undefined, [first |-> Numeral(1)] },
                affordability \in { Undefined, Txt("$$$") },
                comments \in { Undefined, Str(<<" ", " ">>), Str(<<"l", "a", "k", "s", "a">>) },
                compare \in { Undefined, Bool(TRUE) } }

\* Answers of supabase.rpc('match_stalls', ...): an error, no error and no
\* data, or rows.
MatchError == [kind |-> "error"]
MatchNull == [kind |-> "null"]
MatchRows(rows) == [kind |-> "rows", rows |-> rows]

\* Answers of cohere.rerank for n documents: a rejection, or scores for the
\* first min(n, topN) documents in their order or in reverse order.
RerankAnswers(n) ==
    { RerankThrow,
      RerankOk([k \in 1..Min(n, 10) |-> [index |-> k - 1, relevanceScore |-> 1000 - k]]),
      RerankOk([k \in 1..Min(n, 10) |->
                   [index |-> Min(n, 10) - k, relevanceScore |-> 1000 - k]]) }

WeightedInit ==
    /\ pc = "off"
    /\ SearchIdle
    /\ rkPc = "off"
    /\ RankIdle
    /\ FnIdle
    /\ EmbIdle
    /\ wsPc = "request"
    /\ wsBody \in WeightedBodies
    /\ wsStalls = << >>
    /\ wsStandard = << >>
    /\ wsEnv = NoWsAnswers
    /\ wsResponse = Null

\* res.status(status).json(json)
WsSend(status, json) ==
    /\ wsResponse' = [status |-> status, json |-> json]
    /\ wsPc' = "sent"

\* handler, lines 677-680: an exception inside the try
WsFail ==
    /\ WsSend(500, [error |-> "An error occurred during search"])
    /\ UNCHANGED << wsBody, wsStalls, wsStandard >>

\* handler, lines 631-675: from the ranked filteredStalls to the response or
\* to the call of rerankResults
GuidedFinish(filteredStalls) ==
    \E standardResults \in { GuidedStandardResults(filteredStalls) } :
       IF Truthy(wsBody.compare) /\ Len(filteredStalls) > 0
       THEN /\ wsPc' = "rerank"
            /\ wsStalls' = filteredStalls
            /\ wsStandard' = standardResults
            /\ UNCHANGED << wsBody, wsResponse >>
       ELSE /\ WsSend(200, [arr |-> standardResults])
            /\ wsStalls' = filteredStalls
            /\ wsStandard' = standardResults
            /\ UNCHANGED wsBody

\* handler, lines 492-552 for a request without useAgent: up to the first
\* call it awaits
WsHandle ==
    /\ wsPc = "request"
    /\ IF wsBody.mode = "free"
       THEN /\ wsPc' = "embedding"
            /\ UNCHANGED << wsBody, wsStalls, wsStandard, wsResponse >>
       ELSE IF ~Truthy(wsBody.latitude) \/ ~Truthy(wsBody.longitude)
       THEN /\ WsSend(400, [error |-> "Location coordinates are required for guided search"])
            /\ UNCHANGED << wsBody, wsStalls, wsStandard >>
       ELSE /\ wsPc' = "select"
            /\ UNCHANGED << wsBody, wsStalls, wsStandard, wsResponse >>
    /\ UNCHANGED wsEnv
    /\ UNCHANGED searchVars
    /\ UNCHANGED rankVars
    /\ UNCHANGED fnVars
    /\ UNCHANGED embVars

\* handler, lines 552-571 and 606-616: the guided store query answers
WsSelectReturns(failed, table) ==
    /\ wsPc = "select"
    /\ IF failed
       THEN /\ WsFail
            /\ wsEnv' = [wsEnv EXCEPT !.select = "error"]
       ELSE /\ wsEnv' = [wsEnv EXCEPT !.select = "rows", !.table = [rows |-> table]]
            /\ \E filteredStalls \in
                    { GuidedFilter(StoreSelect(GuidedStoreQuery(wsBody.cuisine,
                                                                wsBody.affordability), table),
                                   wsBody.latitude, wsBody.longitude, wsBody.proximity) } :
                  IF /\ Truthy(wsBody.comments)
                     /\ trim(wsBody.comments.s) # << >>
                     /\ Len(filteredStalls) > 0
                  THEN /\ wsPc' = "embedding"
                       /\ wsStalls' = filteredStalls
                       /\ UNCHANGED << wsBody, wsStandard, wsResponse >>
                  ELSE GuidedFinish(GuidedRecencyRank(filteredStalls))
    /\ UNCHANGED searchVars
    /\ UNCHANGED rankVars
    /\ UNCHANGED fnVars
    /\ UNCHANGED embVars

\* openai.embeddings.create answers (lines 163-168, 213-218, 572-577)
WsEmbeddingReturns(ok) ==
    /\ wsPc = "embedding"
    /\ IF ok
       THEN /\ wsPc' = "match"
            /\ wsEnv' = [wsEnv EXCEPT !.embedding = "ok"]
            /\ UNCHANGED << wsBody, wsStalls, wsStandard, wsResponse >>
       ELSE /\ WsFail
            /\ wsEnv' = [wsEnv EXCEPT !.embedding = "throw"]
    /\ UNCHANGED searchVars
    /\ UNCHANGED rankVars
    /\ UNCHANGED fnVars
    /\ UNCHANGED embVars

\* performSemanticOnlySearch and performHybridSearch from the answer of
\* match_stalls to the return or to the call of rerankResults, and the
\* handler's line 520
WsFreeMatchReturns(answer) ==
    IF answer.kind # "rows"
    THEN WsFail
    ELSE \E processedResults \in
              { IF wsBody.latitude # Null /\ wsBody.longitude # Null
                THEN ProcessHybrid(answer.rows, wsBody.latitude, wsBody.longitude)
                ELSE ProcessSemanticOnly(answer.rows) } :
         \E standardResults \in { FreeStandardResults(processedResults) } :
            /\ wsStalls' = processedResults
            /\ wsStandard' = standardResults
            /\ UNCHANGED wsBody
            /\ IF ~Truthy(wsBody.compare)
               THEN WsSend(200, [arr |-> standardResults])
               ELSE IF Len(processedResults) = 0
               THEN WsSend(200, [standard |-> standardResults, reranked |-> << >>])
               ELSE /\ wsPc' = "rerank"
                    /\ UNCHANGED wsResponse

\* handler, lines 579-605: the guided semantic lookup answers
WsGuidedMatchReturns(answer) ==
    IF answer.kind = "rows"
    THEN GuidedFinish(GuidedSemanticRank(wsStalls, answer.rows))
    ELSE GuidedFinish(wsStalls)

\* supabase.rpc('match_stalls', ...) answers
WsMatchReturns(kind, table) ==
    /\ wsPc = "match"
    /\ wsEnv' = [wsEnv EXCEPT !.match = kind,
                              !.table = IF kind = "rows" THEN [rows |-> table] ELSE @]
    /\ IF wsBody.mode = "free"
       THEN WsFreeMatchReturns(
               IF kind = "rows"
               THEN MatchRows(match_stalls(table,
                                           IF Truthy(wsBody.compare) THEN 200 ELSE 300,
                                           IF Truthy(wsBody.compare) THEN 50 ELSE 10))
               ELSE [kind |-> kind])
       ELSE WsGuidedMatchReturns(
               IF kind = "rows" THEN MatchRows(match_stalls(table, 300, 20))
               ELSE [kind |-> kind])
    /\ UNCHANGED searchVars
    /\ UNCHANGED rankVars
    /\ UNCHANGED fnVars
    /\ UNCHANGED embVars

\* cohere.rerank answers: the rest of rerankResults and the response with
\* both lists (lines 198-204, 266-272, 651-672)
WsRerankReturns(answer) ==
    /\ wsPc = "rerank"
    /\ wsEnv' = [wsEnv EXCEPT !.rerank = answer.kind]
    /\ \E rerankedResults \in { rerankResults(wsStalls, answer) } :
          WsSend(200, [standard |-> wsStandard,
                       reranked |-> IF wsBody.mode = "free"
                                    THEN FreeFormattedReranked(rerankedResults)
                                    ELSE GuidedRerankedResults(rerankedResults)])
    /\ UNCHANGED << wsBody, wsStalls, wsStandard >>
    /\ UNCHANGED searchVars
    /\ UNCHANGED rankVars
    /\ UNCHANGED fnVars
    /\ UNCHANGED embVars

WeightedNext ==
    \/ WsHandle
    \/ \E table \in DatedRowLists : WsSelectReturns(FALSE, table)
    \/ WsSelectReturns(TRUE, << >>)
    \/ \E ok \in BOOLEAN : WsEmbeddingReturns(ok)
    \/ \E kind \in { "error", "null" } : WsMatchReturns(kind, << >>)
    \/ \E table \in (IF wsEnv.table = Null THEN DatedRowLists ELSE { wsEnv.table.rows }) :
          WsMatchReturns("rows", table)
    \/ \E answer \in RerankAnswers(Len(wsStalls)) : WsRerankReturns(answer)

WeightedSpec == WeightedInit /\ [][WeightedNext]_vars

\* ------------------------------------------- the cached embedding pipeline
\* pipeline('feature-extraction', ...) resolves to a new object each time it
\* is called; Instance(k) is the one the k-th started load resolves to.
Instance(k) == [instance |-> k]

EmbeddingInit ==
    /\ pc = "off"
    /\ SearchIdle
    /\ rkPc = "off"
    /\ RankIdle
    /\ FnIdle
    /\ WsIdle
    /\ embeddingPipeline = Null
    /\ embLoads = 0
    /\ embCall = [c \in Callers |-> [pc |-> "call", load |-> 0, result |-> Null]]

\* getEmbeddingPipeline() from its call to its first suspension: with the
\* cache empty it starts a load and suspends at the await, otherwise it
\* returns the cached pipeline.
getEmbeddingPipeline(c) ==
    /\ embCall[c].pc = "call"
    /\ IF ~Truthy(embeddingPipeline)
       THEN /\ embLoads' = embLoads + 1
            /\ embCall' = [embCall EXCEPT ![c] = [pc |-> "loading", load |-> embLoads + 1,
                                                  result |-> Null]]
       ELSE /\ embLoads' = embLoads
            /\ embCall' = [embCall EXCEPT ![c] = [pc |-> "returned", load |-> 0,
                                                  result |-> embeddingPipeline]]
    /\ UNCHANGED embeddingPipeline
    /\ UNCHANGED searchVars
    /\ UNCHANGED rankVars
    /\ UNCHANGED fnVars
    /\ UNCHANGED wsVars

\* The load awaited by call c resolves: the call stores the new pipeline in
\* the cache and returns the cache's content.
PipelineResolves(c) ==
    /\ embCall[c].pc = "loading"
    /\ embeddingPipeline' = Instance(embCall[c].load)
    /\ embCall' = [embCall EXCEPT ![c] = [pc |-> "returned", load |-> @.load,
                                          result |-> embeddingPipeline']]
    /\ UNCHANGED embLoads
    /\ UNCHANGED searchVars
    /\ UNCHANGED rankVars
    /\ UNCHANGED fnVars
    /\ UNCHANGED wsVars

\* The load awaited by call c rejects: the call rejects, the cache is left
\* as it is.
PipelineRejects(c) ==
    /\ embCall[c].pc = "loading"
    /\ embCall' = [embCall EXCEPT ![c] = [pc |-> "returned", load |-> @.load,
                                          result |-> Raised]]
    /\ UNCHANGED << embeddingPipeline, embLoads >>
    /\ UNCHANGED searchVars
    /\ UNCHANGED rankVars
    /\ UNCHANGED fnVars
    /\ UNCHANGED wsVars

EmbeddingNext ==
    \E c \in Callers :
       \/ getEmbeddingPipeline(c)
       \/ PipelineResolves(c)
       \/ PipelineRejects(c)

EmbeddingSpec == EmbeddingInit /\ [][EmbeddingNext]_vars

\* ===================================================================== claims
PlaceIds(stalls) == { stalls[i].place_id : i \in DOMAIN stalls }
IdsOf(stalls) == [i \in DOMAIN stalls |-> stalls[i].place_id]
RankReturned == rkPc = "returned"
RankedIds == rkResult.ranking.ranked_ids

\* C1: whatever the completion service answers, every id in the ranked_ids
\* returned by rankWithLLM is the place_id of a candidate that was passed in.
C1_RankedIdsAreCandidateIds ==
    RankReturned => Range(RankedIds) \subseteq PlaceIds(rkCandidates)

\* C1 witness: a ranking naming an out-of-range position, a non-numeric
\* element and a valid position was mapped to the one candidate it names.
C1_Witness ==
    /\ RankReturned
    /\ Len(rkCandidates) = 2
    /\ rkResponse = RankObject([arr |-> << Pos(3), NaN, Pos(2) >>], Undefined)
    /\ RankedIds = << rkCandidates[2].place_id >>

\* C2 (as claimed): for candidates with pairwise distinct place_ids, the
\* ranked_ids returned by rankWithLLM contains no place_id more than once.
C2_RankedIdsUnique ==
    (RankReturned /\ NoDuplicates(IdsOf(rkCandidates))) => NoDuplicates(RankedIds)

\* A position that names a candidate of a prompt of n candidates.
ValidPosition(p, n) == p # NaN /\ p.h % 2 = 0 /\ (p.h \div 2) \in 1..n
ZeroValidPositions(completion, n) ==
    /\ completion.kind = "json"
    /\ \/ completion.json = Null
       \/ completion.json.ranked_ids = Undefined
       \/ \A k \in DOMAIN completion.json.ranked_ids.arr :
             ~ValidPosition(completion.json.ranked_ids.arr[k], n)

\* C5 (as claimed): rankWithLLM never raises, and in each failure case (the
\* completion call throws, valid JSON without a valid position, text that is
\* no JSON) it returns the first at most 10 candidates in the order they had
\* before the completion call, with the reasoning that names that case.
C5_FallbackNamesTheCase ==
    (RankReturned /\ Len(rkCandidates) > 0) =>
        LET before == FallbackIds(PreFilter(rkQuery, rkCandidates))
            n == Min(Len(rkCandidates), MAX_RANKING_CANDIDATES)
            fallback(why) == RankedIds = before /\ rkResult.ranking.reasoning = Txt(why)
        IN /\ ~rkResult.raised
           /\ rkResponse.kind = "throw" =>
                 fallback("Fallback to original order due to ranking error")
           /\ ZeroValidPositions(rkResponse, n) =>
                 fallback("Fallback to original order - could not parse ranking")
           /\ rkResponse.kind = "text" =>
                 fallback("Fallback to original order - JSON parse error")

Responded == pc = "responded"
Answered == Responded /\ response.status = 200
GenericError == [status |-> 500, json |-> [error |-> "An error occurred during search"]]
ParseFailed ==
    /\ env.parse # Null
    /\ \/ env.parse.kind \in { "throw", "text" }
       \/ env.parse.kind = "json" /\ env.parse.json = Null

\* C3: when query interpretation fails, the location resolver, the store and
\* the ranking engine are never invoked for the request, no results are
\* returned, and the caller gets the one generic HTTP 500 response.
C3_ParseFailureAborts ==
    (Responded /\ ParseFailed) =>
        /\ calls.geocode = 0 /\ calls.database = 0
        /\ calls.rankWithLLM = 0 /\ calls.chat = 0
        /\ response = GenericError

\* C3 witness: the completion's text could not be decoded and the request
\* was answered.
C3_Witness ==
    /\ Responded
    /\ env.parse = ParseText
    /\ response.status = 500
    /\ trace.errors # << >>

GeocodingFailed == env.geocode = Null
StoreFailed == env.store # Null /\ env.store.failed
RankingFailed ==
    /\ env.rank # Null
    /\ \/ env.rank.kind \in { "throw", "text" }
       \/ ZeroValidPositions(env.rank, Min(Len(candidates), MAX_RANKING_CANDIDATES))
HasTraceError(step) == \E k \in DOMAIN trace.errors : trace.errors[k].step = step
FallbackReasonings ==
    { Txt("Fallback to original order due to ranking error"),
      Txt("Fallback to original order - could not parse ranking"),
      Txt("Fallback to original order - JSON parse error") }

\* C4 (as claimed): query interpretation is the only stage whose failure
\* aborts: after a failure of geocoding, of the store query or of ranking the
\* search still answers 200 with a result list.
C4_OnlyParsingAborts ==
    (Responded /\ (GeocodingFailed \/ StoreFailed \/ RankingFailed)) =>
        response.status = 200

\* C4 (amended): query interpretation and the store query are the stages
\* whose failure aborts.  The search answers with the generic error exactly
\* when one of them failed, a store failure being in the trace's errors; a
\* geocoding failure is in the trace's errors and a ranking failure in the
\* ranking sub-record's reasoning, and after either the search still answers
\* 200 with a result list.
C4_ParsingAndStoreAbort ==
    Responded =>
        /\ response.status = 500 <=> (ParseFailed \/ StoreFailed)
        /\ response.status = 500 => response = GenericError
        /\ response.status # 500 =>
              response.status = 200 /\ DOMAIN response.json.results = 1..Len(response.json.results)
        /\ StoreFailed => HasTraceError("database")
        /\ GeocodingFailed => HasTraceError("geocoding")
        /\ RankingFailed => trace.ranking.reasoning \in FallbackReasonings

\* C4 witness: geocoding found nothing, the ranking call threw, and the
\* search answered 200 with results.
C4_Witness ==
    /\ Responded
    /\ GeocodingFailed
    /\ env.rank = RankThrow
    /\ response.status = 200
    /\ Len(response.json.results) > 0

\* C7: with no candidate left after distance filtering the completion
\* service is not called, the ranking sub-record has ranked_ids = [], the
\* reasoning "No candidates to rank" and latency 0, and the search answers
\* 200 with an empty result list.
C7_NoCandidatesShortCircuit ==
    (Responded /\ env.store # Null /\ ~env.store.failed /\ candidates = << >>) =>
        /\ calls.chat = 0
        /\ env.rank = Null
        /\ trace.ranking.ranked_ids = << >>
        /\ trace.ranking.reasoning = Txt("No candidates to rank")
        /\ trace.ranking.latency_ms = 0
        /\ response.status = 200
        /\ response.json.results = << >>

\* C7 witness: the store returned rows, the distance filter dropped them all.
C7_Witness ==
    /\ Responded
    /\ trace.distance_filter.before_count > 0
    /\ trace.distance_filter.after_count = 0
    /\ searchCenter # Null
    /\ response.status = 200

Located == pc \in { "database", "ranking", "responded" } /\ ~ParseFailed
Parsed == trace.parsing.parsed

C9_CandidatesWithinRadiusSorted ==
    (pc = "ranking") =>
        IF searchCenter # Null
        THEN /\ \A i \in DOMAIN candidates :
                  /\ candidates[i].distance =
                        calculateDistance(searchCenter.lat, searchCenter.lng,
                                          candidates[i].latitude, candidates[i].longitude)
                  /\ IsNum(candidates[i].distance)
                  /\ candidates[i].distance.n <= 2 * 1000
             /\ \A i, j \in DOMAIN candidates :
                  i < j => candidates[i].distance.n <= candidates[j].distance.n
        ELSE candidates = env.store.rows

\* C9 witness: the store's rows were not in distance order and one of them
\* lay outside the radius; the others reach ranking.
C9_Witness ==
    /\ pc = "ranking"
    /\ searchCenter # Null
    /\ IdsOf(env.store.rows) = << 102, 106, 103, 104, 101 >>
    /\ Len(candidates) = 4

\* C10: the final results are the candidates named by ranked_ids, in the
\* order of ranked_ids, ids that name no current candidate dropped, and at
\* most 10 of them.
C10_ResultsFollowRanking ==
    (Responded /\ response.status = 200) =>
        LET results == response.json.results
            named == SelectSeq(trace.ranking.ranked_ids,
                               LAMBDA id : id \in PlaceIds(candidates))
        IN /\ Len(results) <= 10
           /\ IdsOf(results) = Take(named, 10)
           /\ \A k \in DOMAIN results : \E i \in DOMAIN candidates :
                 /\ candidates[i].place_id = results[k].place_id
                 /\ candidates[i].name = results[k].name

\* C10 witness: more than ten candidates were ranked in the reverse of their
\* order and ten results came back, last candidate first.
C10_Witness ==
    /\ Responded
    /\ response.status = 200
    /\ Len(candidates) > 10
    /\ Len(response.json.results) = 10
    /\ response.json.results[1].place_id = candidates[Len(candidates)].place_id

\* ------------------------------------------------------------------ geocode
GeocodeReturned == fnPc = "returned" /\ "placeName" \in DOMAIN fnArgs

\* The external call produced a result geocode can use.
OneMapUsable(onemap) == onemap.kind = "ok"

\* The gazetteer has an entry whose key is the normalized name, contains it
\* or is contained in it.
GazetteerMatch(placeName) ==
    LET normalized == trim(toLowerCase(placeName))
    IN \E i \in DOMAIN FALLBACK_LOCATIONS :
          \/ FALLBACK_LOCATIONS[i].key = normalized
          \/ includes(FALLBACK_LOCATIONS[i].key, normalized)
          \/ includes(normalized, FALLBACK_LOCATIONS[i].key)

\* C11: geocode never raises to its caller, and for every outcome of the
\* external call other than a usable result (no token, HTTP 400, 403, 429,
\* another non-OK status, zero results, a thrown error) it returns what the
\* static gazetteer lookup gives for the same place name: null when the
\* lookup finds nothing, else the looked-up coordinates marked 'fallback'.
C11_GeocodeFallsBackNeverRaises ==
    GeocodeReturned =>
       /\ ~fnResult.raised
       /\ ~OneMapUsable(fnArgs.onemap) =>
             LET coords == getFallbackLocation(fnArgs.placeName)
             IN IF coords = Null THEN fnResult.value = Null
                ELSE fnResult.value = [lat |-> coords.lat, lng |-> coords.lng,
                                       source |-> "fallback", input |-> fnArgs.placeName,
                                       address |-> Undefined]

\* The external call is rate limited (or rejects) and the gazetteer answers.
C11_Witness ==
    /\ GeocodeReturned
    /\ fnArgs.onemap \in { OneMapStatus(429), OneMapThrow }
    /\ fnArgs.placeName = <<" ","B","U","G","I","S"," ">>
    /\ fnResult.value # Null
    /\ fnResult.value.source = "fallback"
    /\ fnResult.value.lat = Num(13008)

\* C12: geocode returns null if and only if the external service produced
\* no usable result and the gazetteer has neither an exact nor a substring
\* match for the place name; a returned result has source 'onemap' exactly
\* when its coordinates are the external service's and 'fallback' exactly
\* when they are the gazetteer's.
C12_NullIffBothPathsFail ==
    GeocodeReturned =>
       /\ fnResult.value = Null
             <=> ~OneMapUsable(fnArgs.onemap) /\ ~GazetteerMatch(fnArgs.placeName)
       /\ fnResult.value # Null =>
             /\ fnResult.value.source \in { "onemap", "fallback" }
             /\ fnResult.value.source = "onemap" <=> OneMapUsable(fnArgs.onemap)
             /\ fnResult.value.source = "onemap" =>
                   /\ fnResult.value.lat = parseFloat(fnArgs.onemap.lat)
                   /\ fnResult.value.lng = parseFloat(fnArgs.onemap.lng)
             /\ fnResult.value.source = "fallback" =>
                   \E i \in DOMAIN FALLBACK_LOCATIONS :
                      /\ fnResult.value.lat = Num(FALLBACK_LOCATIONS[i].lat)
                      /\ fnResult.value.lng = Num(FALLBACK_LOCATIONS[i].lng)

\* --------------------------------------------------------------- parseQuery
ParseQueryReturned == fnPc = "returned" /\ "response" \in DOMAIN fnArgs

\* C13: for every completion, parseQuery either fails with an error or
\* returns a parsed intent whose food_query is a string that is trimmed and
\* not empty; it never succeeds with an empty, null or undefined food_query.
C13_FoodQueryNonEmptyOrError ==
    ParseQueryReturned /\ ~fnResult.raised =>
       LET food_query == fnResult.value.parsed.food_query
       IN /\ IsStr(food_query)
          /\ food_query.s = trim(food_query.s)
          /\ food_query.s # << >>

\* ------------------------------------------------------------ price filter
StoreAnswered == env.store # Null /\ ~env.store.failed
BucketOf(price) ==
    IF price = Txt("cheap") THEN "Affordable (< S$10)"
    ELSE IF price = Txt("moderate") THEN "Mid-Range (S$10-S$20)"
    ELSE "Premium (> S$20)"

\* C14: in agent-mode filtering each parsed price selects exactly one
\* affordability bucket (cheap the affordable one, moderate the mid-range
\* one, expensive the premium one), so every row the store returns is of
\* that bucket; a null price puts no affordability predicate on the query.
C14_PriceMapsToOneBucket ==
    dbQuery # Null =>
       /\ Parsed.price \in { Null, Txt("cheap"), Txt("moderate"), Txt("expensive") }
       /\ Parsed.price = Null => dbQuery.affordability_in = Null
       /\ Parsed.price # Null =>
             /\ dbQuery.affordability_in = [values |-> { BucketOf(Parsed.price) }]
             /\ StoreAnswered =>
                   \A i \in DOMAIN env.store.rows :
                      env.store.rows[i].affordability = BucketOf(Parsed.price)

\* A moderate price: the store returned rows, all of the mid-range bucket.
C14_Witness ==
    /\ Answered
    /\ Parsed.price = Txt("moderate")
    /\ StoreAnswered
    /\ env.store.rows # << >>
    /\ \A i \in DOMAIN response.json.results :
          response.json.results[i].affordability = "Mid-Range (S$10-S$20)"
    /\ response.json.results # << >>

\* ---------------------------------------------------------- distance filter
\* C15: the distance step applied to its own output, with the same center
\* and radius, returns the same members in the same order, also when
\* candidates are at equal distance.
C15_DistanceFilterIdempotent ==
    searchCenter # Null => DistanceFilter(candidates, searchCenter) = candidates

\* The step dropped a row and kept two candidates at equal distance.
C15_Witness ==
    /\ searchCenter # Null
    /\ StoreAnswered
    /\ Len(candidates) < Len(env.store.rows)
    /\ \E i, j \in DOMAIN candidates : i < j /\ candidates[i].distance = candidates[j].distance

\* --------------------------------------------------------------- trace sink
\* C16: trace persistence is fire-and-forget: the step that issues the
\* insert also sends the 200 response, with the insert still pending; and
\* when the insert settles (stored, error answered, exception) the response
\* and the handler's position stay as they are.
C16_TraceSinkFireAndForget ==
    [][ /\ calls'.sink > calls.sink =>
              pc' = "responded" /\ response'.status = 200 /\ sink' = "pending"
        /\ sink = "pending" /\ sink' # sink =>
              response' = response /\ pc' = pc /\ trace' = trace ]_vars

\* The insert raised after the results were sent.
C16_Witness ==
    /\ sink = "threw"
    /\ calls.warn = 1
    /\ response.status = 200
    /\ response.json.results # << >>

\* ---------------------------------------------------------- debug exposure
\* C17: the response holds the full trace if and only if debug is true;
\* otherwise it holds only results, parsed intent, search center, reasoning
\* and the trace summary, which is the trace id, timings and counts.
C17_TraceOnlyWithDebug ==
    Answered =>
       /\ DOMAIN response.json =
             { "results", "parsed", "search_center", "reasoning", "trace", "summary" }
       /\ response.json.trace # Undefined <=> body.debug = Bool(TRUE)
       /\ body.debug = Bool(TRUE) => response.json.trace = trace
       /\ DOMAIN response.json.summary = { "trace_id", "timings", "counts" }
       /\ response.json.summary.timings.total_ms = trace.total_latency_ms
       /\ response.json.summary.counts.final_results = trace.result_count

\* A search without debug whose trace holds an error: no trace in the response.
C17_Witness ==
    /\ Answered
    /\ body.debug # Bool(TRUE)
    /\ trace.errors # << >>
    /\ response.json.trace = Undefined
    /\ response.json.results # << >>

\* The response the search gives when rankWithLLM settles on `completion`.
RankingOutcome(completion, elapsed) ==
    CompleteSearch(
        [trace EXCEPT !.ranking =
            RankingRecord(Parsed, candidates,
                          rankWithLLM(Parsed.food_query.s, candidates, completion, elapsed))],
        candidates, searchCenter, DebugOf(body.debug)).response

\* C18: with debug false a failure of the ranking call shows in the response
\* only through the stalls returned and their order: of two searches that
\* agree up to the ranking call, one whose call fails and one whose call
\* succeeds, with the same result list, the responses are identical.
C18_RankingFailureInvisible ==
    (pc = "ranking" /\ ~Truthy(DebugOf(body.debug))) =>
       \A elapsed \in Latencies :
       \A working \in { c \in SearchRankResponses(Min(Len(candidates), MAX_RANKING_CANDIDATES)) :
                           /\ c.kind = "json"
                           /\ ~ZeroValidPositions(c, Min(Len(candidates), MAX_RANKING_CANDIDATES)) } :
          LET failed == RankingOutcome(RankThrow, elapsed)
              worked == RankingOutcome(working, elapsed)
          IN failed.json.results = worked.json.results => failed = worked

\* -------------------------------------------------------------- trace errors
\* C19: every degraded-stage failure appends to the trace's errors: when
\* geocoding finds no location for the parsed location_name, and when the
\* ranking call fails or its response cannot be used, the finalized trace
\* has an error entry of that stage.
C19_DegradedFailuresInTraceErrors ==
    Answered =>
       /\ GeocodingFailed => HasTraceError("geocoding")
       /\ RankingFailed => HasTraceError("ranking")

\* C20: every stage that has run has written its sub-record by the time the
\* trace is finalized: the sub-record of a stage whose call settled is not
\* the one createEmptyTrace made, also when that stage is the one that failed.
C20_StagesWriteSubRecords ==
    Responded =>
       LET empty == createEmptyTrace(RawQuery, userLocation)
       IN /\ env.parse # Null => trace.parsing # empty.parsing
          /\ env.geocode # Undefined => trace.geocoding # empty.geocoding
          /\ env.store # Null => trace.database # empty.database
          /\ env.rank # Null => trace.ranking # empty.ranking

\* ---------------------------------------------------------- gazetteer lookup
ExactKeys(placeName) ==
    { i \in DOMAIN FALLBACK_LOCATIONS :
        FALLBACK_LOCATIONS[i].key = trim(toLowerCase(placeName)) }
ContainmentKeys(placeName) ==
    { i \in DOMAIN FALLBACK_LOCATIONS :
        \/ includes(FALLBACK_LOCATIONS[i].key, trim(toLowerCase(placeName)))
        \/ includes(trim(toLowerCase(placeName)), FALLBACK_LOCATIONS[i].key) }
GazetteerEntry(i, placeName) ==
    [lat |-> Num(FALLBACK_LOCATIONS[i].lat), lng |-> Num(FALLBACK_LOCATIONS[i].lng),
     source |-> "fallback", input |-> placeName, address |-> Undefined]

\* C24: with the external service giving nothing, the lookup returns the
\* entry whose key is the trimmed lower-cased name when there is one; only
\* when there is none it returns the first entry, in declaration order,
\* whose key contains the name or is contained in it.  A name that is a key
\* never resolves to a shorter key inside it, and "bugis" resolves to
\* lat 1.3008, lng 103.8558, source fallback.
C24_ExactKeyBeforeContainment ==
    GeocodeReturned /\ ~OneMapUsable(fnArgs.onemap) =>
       /\ \A i \in ExactKeys(fnArgs.placeName) :
              fnResult.value = GazetteerEntry(i, fnArgs.placeName)
       /\ ExactKeys(fnArgs.placeName) = {} =>
              \A i \in ContainmentKeys(fnArgs.placeName) :
                 (\A j \in ContainmentKeys(fnArgs.placeName) : i <= j) =>
                    fnResult.value = GazetteerEntry(i, fnArgs.placeName)
       /\ fnArgs.placeName = <<"b","u","g","i","s">> =>
              /\ fnResult.value.lat = Num(13008)
              /\ fnResult.value.lng = Num(1038558)
              /\ fnResult.value.source = "fallback"

\* "Bugis Junction" with no token: its own entry, not that of "bugis".
C24_Witness ==
    /\ GeocodeReturned
    /\ fnArgs.onemap = OneMapNoToken
    /\ fnArgs.placeName = <<"B","u","g","i","s"," ","J","u","n","c","t","i","o","n">>
    /\ fnResult.value.lat = Num(12997)
    /\ fnResult.value.lng = Num(1038550)
    /\ 1 \in ContainmentKeys(fnArgs.placeName)

\* ---------------------------------------------------------- formatted stalls
PublicFields ==
    { "place_id", "name", "distance", "cuisine", "affordability", "recommended_dishes",
      "source", "source_url", "date_published", "review_summary", "location" }

\* C23: each formatted stall of the agent search response has exactly the
\* public fields, with the values of the candidate it was made from; no
\* embedding, embedded text, coordinates or status of the stored row is in it.
C23_FormattedStallsPublicFieldsOnly ==
    Answered =>
       \A k \in DOMAIN response.json.results :
          LET stall == response.json.results[k]
          IN /\ DOMAIN stall = PublicFields
             /\ \E i \in DOMAIN candidates :
                   /\ candidates[i].place_id = stall.place_id
                   /\ candidates[i].name = stall.name
                   /\ DOMAIN candidates[i] \ DOMAIN stall
                        = { "category", "operating_hours", "latitude", "longitude", "status",
                            "embedding", "embedded_text" }

\* A stall was returned whose stored row holds an embedding.
C23_Witness ==
    /\ Answered
    /\ response.json.results # << >>
    /\ \A i \in DOMAIN candidates : candidates[i].embedding = "vector"
    /\ "embedding" \notin DOMAIN response.json.results[1]

\* ------------------------------------------------------------ final results
\* C28: the final results of an agent search never hold the same place_id
\* twice, whatever ranking the completion returns (the store's rows have
\* distinct place_ids).
C28_ResultsHaveNoDuplicate ==
    Answered => NoDuplicates(IdsOf(response.json.results))

\* ------------------------------------------------------ absent coordinates
\* C29: when the request carries no usable coordinates (latitude or
\* longitude null or absent) and the parsed intent has use_current_location
\* and no location_name, the search has no center: the distance filter drops
\* nothing and the response's search_center is null.
C29_NoCoordinatesNoCenter ==
    (Answered
       /\ (body.latitude \in { Null, Undefined } \/ body.longitude \in { Null, Undefined })
       /\ Parsed.use_current_location /\ ~Truthy(Parsed.location_name)) =>
          /\ searchCenter = Null
          /\ response.json.search_center = Null
          /\ StoreAnswered => Len(candidates) = Len(env.store.rows)

\* ----------------------------------------------------------- name pre-filter
IndexIn(stalls, id) == CHOOSE i \in DOMAIN stalls : stalls[i].place_id = id

\* C25: the pre-filter returns a permutation of its input in which the
\* candidates with a positive score come first in non-increasing score
\* order, those of equal score in input order, and those with score 0 follow
\* in input order; it is the list rankWithLLM falls back on when the
\* completion call fails, which is where its order shows.
C25_PreFilterStablePermutation ==
    (RankReturned /\ rkResponse = RankThrow) =>
       \E reordered \in { PreFilter(rkQuery, rkCandidates) } :
       \E score \in { [k \in DOMAIN reordered |-> NameMatchScore(rkQuery, reordered[k])] } :
       \E from \in { [k \in DOMAIN reordered |-> IndexIn(rkCandidates, reordered[k].place_id)] } :
          /\ Len(reordered) = Len(rkCandidates)
          /\ PlaceIds(reordered) = PlaceIds(rkCandidates)
          /\ NoDuplicates(IdsOf(reordered))
          /\ \A i, j \in DOMAIN reordered :
                i < j =>
                  /\ score[i] >= score[j]
                  /\ score[i] = score[j] => from[i] < from[j]
          /\ RankedIds = Take(IdsOf(reordered), TOP_N_RESULTS)

\* Matches of different scores, several of one score, and candidates without
\* a match between them: the call failed and the order returned is not the
\* input's.
C25_Witness ==
    /\ RankReturned
    /\ rkResponse = RankThrow
    /\ Len(rkCandidates) > TOP_N_RESULTS
    /\ RankedIds # Take(IdsOf(rkCandidates), TOP_N_RESULTS)
    /\ \E i, j, k \in DOMAIN rkCandidates :
          /\ i < j /\ j < k
          /\ NameMatchScore(rkQuery, rkCandidates[i]) > 0
          /\ NameMatchScore(rkQuery, rkCandidates[i]) = NameMatchScore(rkQuery, rkCandidates[k])
          /\ NameMatchScore(rkQuery, rkCandidates[j]) > NameMatchScore(rkQuery, rkCandidates[i])

\* ---------------------------------------------------------- position mapping
\* The candidates shown to the completion service.
Shown == Take(PreFilter(rkQuery, rkCandidates), MAX_RANKING_CANDIDATES)
RECURSIVE IdsAtValidPositions(_, _)
IdsAtValidPositions(positions, shown) ==
    IF positions = << >> THEN << >>
    ELSE IF ValidPosition(Head(positions), Len(shown))
         THEN << shown[Head(positions).h \div 2].place_id >>
                \o IdsAtValidPositions(Tail(positions), shown)
         ELSE IdsAtValidPositions(Tail(positions), shown)

C27_DecodingTotalOnJson ==
    ParseQueryReturned =>
       /\ fnArgs.response.kind = "json" => ~fnResult.raised
       /\ fnArgs.response.kind \in { "throw", "text" } => fnResult.raised

\* C30: the embedding model is loaded at most once per process: whatever the
\* interleaving of the calls of getEmbeddingPipeline, pipeline(...) is started
\* at most once and all calls that return a pipeline return the same one.
C30_ModelLoadedAtMostOnce ==
    /\ embLoads <= 1
    /\ \A c, d \in Callers :
          (embCall[c].pc = "returned" /\ embCall[d].pc = "returned"
             /\ embCall[c].result # Raised /\ embCall[d].result # Raised)
          => embCall[c].result = embCall[d].result

\* The weighted-score handler has computed its standard list.
WsRanked == wsPc = "rerank" \/ (wsPc = "sent" /\ wsResponse.status = 200)

\* C21: when the reranking call fails the request still succeeds, and the
\* reranked list of the response holds the same stalls in the same order as
\* the standard list of the same response, in every mode.
C21_RerankFailureKeepsStandardOrder ==
    wsEnv.rerank = "throw" =>
       /\ wsResponse.status = 200
       /\ IdsOf(wsResponse.json.reranked) = IdsOf(wsResponse.json.standard)

\* The adjusted score (times 10^4) of an entry of a free-mode standard list.
AdjustedScoreOf(entry) == entry.similarity.n * 7 + entry.recencyScore * 3

\* The adjusted distance (times 10^4) of an entry of a guided standard list;
\* an entry without similarity has semantic weight 0.
AdjustedDistanceOf(entry) ==
    entry.distance.n
       * (10000 - (IF entry.similarity = Null THEN 0 ELSE entry.similarity.n) * 3
                - entry.recencyScore)

\* C22: the standard list has at most 10 entries and is sorted, by
\* non-increasing adjusted score in the free modes and by non-decreasing
\* adjusted distance on every path of the guided mode.
C22_StandardListSortedTopTen ==
    WsRanked =>
       /\ Len(wsStandard) <= 10
       /\ \A i, j \in DOMAIN wsStandard :
             i < j => IF wsBody.mode = "free"
                      THEN AdjustedScoreOf(wsStandard[i]) >= AdjustedScoreOf(wsStandard[j])
                      ELSE AdjustedDistanceOf(wsStandard[i]) <= AdjustedDistanceOf(wsStandard[j])
====
